---- MODULE Spec2Model ----
(***************************************************************************)
(* A model of GDALPamRasterBand (gcore/gdalpamrasterband.cpp): one band,   *)
(* its lazily created GDALRasterBandPamInfo record (psPam), the dataset    *)
(* the band belongs to and the dataset's PAM store with its dirty flag.    *)
(*                                                                         *)
(* Every method of the class is an operator from a band state b (the       *)
(* fields a method can change) to the band state after the call together   *)
(* with what the call returned; the Call... actions apply one method to    *)
(* the current state and record the call in lastOp.                        *)
(***************************************************************************)
EXTENDS Integers, Sequences, FiniteSets, TLC

(***************************************************************************)
(* Bounds of the model.                                                    *)
(***************************************************************************)
\* doubles given to the setters are 0..MaxDouble and NaN
MaxDouble == 1
\* the 64-bit integers are scaled down to INT64_MIN..MaxInt and 0..MaxInt+1
MaxInt == 0

\* category name lists have up to MaxNames entries
MaxNames == 2
\* colour tables have up to MaxEntries entries
MaxEntries == 1
\* attribute tables have up to MaxRat rows and up to MaxRat columns
MaxRat == 1
\* most nodes in a histogram list that is searched
MaxHistItems == 2
\* largest count of a histogram bucket
MaxCount == 1

(***************************************************************************)
(* Values.                                                                 *)
(***************************************************************************)
\* The IEEE not-a-number: a value outside the numbers of the model, which
\* compares unequal to everything, itself included (see DblEQ).
NaN == -7777777

CPLIsNan(d) == d = NaN

\* IEEE comparison of two doubles with == and !=
DblEQ(a, b) == ~CPLIsNan(a) /\ ~CPLIsNan(b) /\ a = b

DblNE(a, b) == ~DblEQ(a, b)

\* -1e10 in gdal_pam.h; TLC's integers are 32 bits wide, so the model keeps a
\* value of the same sign outside the values the setters are given.
GDAL_PAM_DEFAULT_NODATA_VALUE == -1000000000

\* std::numeric_limits<int64_t>::min() of the scaled-down int64 range
GDAL_PAM_DEFAULT_NODATA_VALUE_INT64 == -(MaxInt + 1)

\* std::numeric_limits<uint64_t>::max() of the scaled-down uint64 range
GDAL_PAM_DEFAULT_NODATA_VALUE_UINT64 == MaxInt + 1

Doubles == (0..MaxDouble) \cup {NaN}

Int64s == GDAL_PAM_DEFAULT_NODATA_VALUE_INT64..MaxInt

UInt64s == 0..GDAL_PAM_DEFAULT_NODATA_VALUE_UINT64

\* A pointer that may be null is a sequence of length 0 (nullptr) or 1.
NULL == <<>>

Ptr(x) == <<x>>

IsNull(p) == p = <<>>

Deref(p) == p[1]

\* all sequences over S of length 0..n
SeqsUpTo(S, n) == UNION {[1..k -> S] : k \in 0..n}

\* the arguments of SetUnitType: a null pointer, the empty string, two units
UnitArgs == {NULL, Ptr(""), Ptr("m"), Ptr("ft")}

Descriptions == {"", "elevation", "depth"}

ColorInterps == {"GCI_Undefined", "GCI_GrayIndex", "GCI_PaletteIndex"}

\* char **: a null pointer or a list of names, some of which may be empty
NameLists == {NULL} \cup {Ptr(l) : l \in SeqsUpTo({"", "water"}, MaxNames)}

\* GDALColorEntry
ColorEntries == {[c1 |-> 0, c2 |-> 0, c3 |-> 0, c4 |-> 255],
                 [c1 |-> 255, c2 |-> 255, c3 |-> 255, c4 |-> 0]}

\* GDALColorTable *: a null pointer or a table, which may have no entry
ColorTables == {NULL} \cup {Ptr(t) : t \in SeqsUpTo(ColorEntries, MaxEntries)}

\* GDALRasterAttributeTable *: a null pointer or a table, of which the model
\* keeps the numbers of rows and columns
RATs == {NULL} \cup {Ptr([nRows |-> r, nCols |-> c]) : r \in 0..MaxRat, c \in 0..MaxRat}

(***************************************************************************)
(* Texts are sequences of characters; numbers are written and read digit   *)
(* by digit.                                                               *)
(***************************************************************************)
INT_MAX == 2147483647

DigitChars == <<"0", "1", "2", "3", "4", "5", "6", "7", "8", "9">>

isdigit(ch) == \E i \in 1..10 : DigitChars[i] = ch

DigitValue(ch) == (CHOOSE i \in 1..10 : DigitChars[i] = ch) - 1

\* the number the leading digits of s continue n with
RECURSIVE ReadDigits(_, _)
ReadDigits(s, n) ==
    IF s = <<>> \/ ~isdigit(Head(s))
    THEN n
    ELSE ReadDigits(Tail(s), 10 * n + DigitValue(Head(s)))

RECURSIVE SkipSpaces(_)
SkipSpaces(s) == IF s # <<>> /\ Head(s) = " " THEN SkipSpaces(Tail(s)) ELSE s

\* atoi(): leading spaces, a sign, digits; whatever follows is ignored
atoi(s) ==
    LET t == SkipSpaces(s) IN
    IF t # <<>> /\ Head(t) = "-" THEN 0 - ReadDigits(Tail(t), 0)
    ELSE IF t # <<>> /\ Head(t) = "+" THEN ReadDigits(Tail(t), 0)
    ELSE ReadDigits(t, 0)

RECURSIVE FormatNat(_)
FormatNat(n) ==
    IF n < 10
    THEN <<DigitChars[n + 1]>>
    ELSE FormatNat(n \div 10) \o <<DigitChars[(n % 10) + 1]>>

\* "%d" and CPL_FRMT_GUIB
FormatInt(n) == IF n < 0 THEN <<"-">> \o FormatNat(0 - n) ELSE FormatNat(n)

(***************************************************************************)
(* Doubles that are no small whole number.  A double of the model is a     *)
(* whole number of TLC, NaN, or one of the doubles named here, of which    *)
(* the model keeps the decimal expansion and the eight bytes.              *)
(***************************************************************************)
\* 0.5
DBL_HALF == -7000001
\* 0.3, the double nearest to it: 0.299999999999999988897769753748...
DBL_0_3 == -7000002
\* 0.1 + 0.2 = 0.30000000000000004 = 0.3000000000000000444089209850...
DBL_0_30000000000000004 == -7000003
\* 2^53 = 9007199254740992
DBL_2_53 == -7000004
\* 2^53 - 2 = 9007199254740990
DBL_2_53_LESS_2 == -7000005
\* a double the model has no name for
DBL_OTHER == -7000099

NamedDoubles == {DBL_HALF, DBL_0_3, DBL_0_30000000000000004, DBL_2_53, DBL_2_53_LESS_2}

\* a decimal number: sign, significant digits (none for zero, the first and
\* the last not 0) and the power of ten of the first digit
Decimal(neg, digits, exp) == [neg |-> neg, digits |-> digits, exp |-> exp]

RECURSIVE StripTrailingZeros(_)
StripTrailingZeros(digits) ==
    IF digits # <<>> /\ digits[Len(digits)] = 0
    THEN StripTrailingZeros(SubSeq(digits, 1, Len(digits) - 1))
    ELSE digits

\* leading zeros removed, the power of ten lowered with each, and trailing
\* zeros removed
RECURSIVE Normalize(_)
Normalize(dec) ==
    IF dec.digits = <<>>
    THEN Decimal(dec.neg, <<>>, 0)
    ELSE IF Head(dec.digits) = 0
    THEN Normalize(Decimal(dec.neg, Tail(dec.digits), dec.exp - 1))
    ELSE Decimal(dec.neg, StripTrailingZeros(dec.digits), dec.exp)

\* the digits of a text of digits
DigitsOf(s) == [i \in 1..Len(s) |-> DigitValue(s[i])]

\* the text of a sequence of digits
TextOf(digits) == [i \in 1..Len(digits) |-> DigitChars[digits[i] + 1]]

\* the first twenty significant digits of the exact value of a named double
ExactDigits(d) ==
    CASE d = DBL_HALF -> <<5>>
      [] d = DBL_0_3 -> <<2, 9, 9, 9, 9, 9, 9, 9, 9, 9, 9, 9, 9, 9, 9, 9, 8, 8, 8, 9>>
      [] d = DBL_0_30000000000000004 -> <<3, 0, 0, 0, 0, 0, 0, 0, 0, 0, 0, 0, 0, 0, 0, 0, 4, 4, 4, 1>>
      [] d = DBL_2_53 -> <<9, 0, 0, 7, 1, 9, 9, 2, 5, 4, 7, 4, 0, 9, 9, 2>>
      [] d = DBL_2_53_LESS_2 -> <<9, 0, 0, 7, 1, 9, 9, 2, 5, 4, 7, 4, 0, 9, 9>>

\* the shortest digits that are read back as the named double
ShortestDigits(d) ==
    CASE d = DBL_0_3 -> <<3>>
      [] d = DBL_0_30000000000000004 -> <<3, 0, 0, 0, 0, 0, 0, 0, 0, 0, 0, 0, 0, 0, 0, 0, 4>>
      [] OTHER -> ExactDigits(d)

\* the power of ten of the first digit of a named double
ExponentOf(d) == IF d \in {DBL_2_53, DBL_2_53_LESS_2} THEN 15 ELSE -1

\* the exact value of a double that is not NaN (of the named ones its first
\* twenty digits)
DecimalOf(d) ==
    IF d \in NamedDoubles
    THEN Decimal(FALSE, ExactDigits(d), ExponentOf(d))
    ELSE LET abs == IF d < 0 THEN 0 - d ELSE d
             text == FormatNat(abs)
         IN Normalize(Decimal(d < 0, DigitsOf(text), Len(text) - 1))

\* digits + 1 in the last place; one digit more when all were 9
RECURSIVE Increment(_)
Increment(digits) ==
    IF digits = <<>>
    THEN <<1>>
    ELSE IF digits[Len(digits)] < 9
    THEN [digits EXCEPT ![Len(digits)] = @ + 1]
    ELSE Increment(SubSeq(digits, 1, Len(digits) - 1)) \o <<0>>

\* the decimal rounded to n significant digits, to nearest and in a tie to
\* even, as printf does: n digits exactly (zeros where there are none)
RoundSig(dec, n) ==
    LET digits == dec.digits
        padded == digits \o [i \in 1..(n - Len(digits)) |-> 0]
        kept == SubSeq(digits, 1, n)
        up == \/ digits[n + 1] > 5
              \/ digits[n + 1] = 5 /\ Len(digits) > n + 1
              \/ digits[n + 1] = 5 /\ Len(digits) = n + 1 /\ kept[n] % 2 = 1
        raised == Increment(kept)
    IN IF Len(digits) <= n
       THEN Decimal(dec.neg, padded, dec.exp)
       ELSE IF ~up
       THEN Decimal(dec.neg, kept, dec.exp)
       ELSE IF Len(raised) > n
       THEN Decimal(dec.neg, SubSeq(raised, 1, n), dec.exp + 1)
       ELSE Decimal(dec.neg, raised, dec.exp)

\* the exponent of the E and e formats: a sign and at least two digits
FormatExponent(e) ==
    LET abs == IF e < 0 THEN 0 - e ELSE e
    IN <<IF e < 0 THEN "-" ELSE "+">> \o (IF abs < 10 THEN <<"0">> ELSE <<>>) \o FormatNat(abs)

\* "%.14E" of a double that is not NaN
FormatE14(d) ==
    LET Text(r) ==
            (IF r.neg THEN <<"-">> ELSE <<>>) \o TextOf(<<r.digits[1]>>) \o <<".">>
               \o TextOf(SubSeq(r.digits, 2, 15)) \o <<"E">> \o FormatExponent(r.exp)
    IN Text(RoundSig(DecimalOf(d), 15))

\* "%.16g" of a double that is not a small whole number: sixteen significant
\* digits without the trailing zeros, with an exponent when the power of ten
\* is below -4 or not below 16
FormatG16Decimal(d) ==
    LET Text(r, sign, digits, whole, fraction) ==
            IF r.exp < -4 \/ r.exp >= 16
            THEN sign \o TextOf(<<digits[1]>>) \o (IF Len(digits) > 1 THEN <<".">> ELSE <<>>)
                    \o TextOf(Tail(digits)) \o <<"e">> \o FormatExponent(r.exp)
            ELSE IF r.exp < 0
            THEN sign \o <<"0", ".">> \o [i \in 1..(0 - r.exp - 1) |-> "0"] \o TextOf(digits)
            ELSE sign \o TextOf(whole) \o (IF fraction = <<>> THEN <<>> ELSE <<".">>)
                    \o TextOf(fraction)
        Rounded(r) ==
            Text(r, IF r.neg THEN <<"-">> ELSE <<>>, StripTrailingZeros(r.digits),
                 SubSeq(r.digits, 1, r.exp + 1),
                 StripTrailingZeros(SubSeq(r.digits, r.exp + 2, 16)))
    IN Rounded(RoundSig(DecimalOf(d), 16))

\* the digits s begins with
RECURSIVE LeadingDigits(_)
LeadingDigits(s) ==
    IF s = <<>> \/ ~isdigit(Head(s)) THEN <<>> ELSE <<Head(s)>> \o LeadingDigits(Tail(s))

\* the decimal number a text begins with: a sign, digits, a decimal point
\* (point) with digits, an exponent; whatever follows is ignored
ParseDecimal(s, point) ==
    LET \* t2: the text after the digits before the point; t3: the text after
        \* the fraction
        HasPoint(t2) == t2 # <<>> /\ Head(t2) = point
        HasExp(t3) == /\ Len(t3) >= 2
                      /\ t3[1] \in {"e", "E"}
                      /\ \/ isdigit(t3[2])
                         \/ Len(t3) >= 3 /\ t3[2] \in {"-", "+"} /\ isdigit(t3[3])
        Value(neg, whole, fraction, t3) ==
            Normalize(Decimal(neg, DigitsOf(whole \o fraction),
                              Len(whole) - 1 + (IF HasExp(t3) THEN atoi(Tail(t3)) ELSE 0)))
        AfterFraction(neg, whole, t2, fraction) ==
            Value(neg, whole, fraction,
                  IF HasPoint(t2) THEN SubSeq(t2, Len(fraction) + 2, Len(t2)) ELSE t2)
        AfterWhole(neg, whole, t2) ==
            AfterFraction(neg, whole, t2,
                          IF HasPoint(t2) THEN LeadingDigits(Tail(t2)) ELSE <<>>)
        AfterDigits(neg, t1, whole) ==
            AfterWhole(neg, whole, SubSeq(t1, Len(whole) + 1, Len(t1)))
        AfterSign(neg, t1) == AfterDigits(neg, t1, LeadingDigits(t1))
    IN AfterSign(s # <<>> /\ Head(s) = "-",
                 IF s # <<>> /\ Head(s) \in {"-", "+"} THEN Tail(s) ELSE s)

\* the decimal is a whole number of at most nine digits
IsSmallWhole(dec) == Len(dec.digits) <= dec.exp + 1 /\ dec.exp < 9

\* the whole number of at most nine digits
SmallWhole(dec) ==
    LET n == ReadDigits(TextOf(dec.digits \o [i \in 1..(dec.exp + 1 - Len(dec.digits)) |-> 0]), 0)
    IN IF dec.neg THEN 0 - n ELSE n

\* the decimal is read as the named double: it is its shortest form, or
\* agrees with its exact value in seventeen significant digits
ReadsAs(dec, d) ==
    /\ ~dec.neg
    /\ dec.exp = ExponentOf(d)
    /\ \/ dec.digits = ShortestDigits(d)
       \/ RoundSig(dec, 17) = RoundSig(DecimalOf(d), 17)

\* strtod(): the double nearest to the decimal, among the doubles of the model
NearestDouble(dec) ==
    LET Named(S) == IF S = {} THEN DBL_OTHER ELSE CHOOSE d \in S : TRUE
    IN IF dec.digits = <<>> THEN 0
       ELSE IF IsSmallWhole(dec) THEN SmallWhole(dec)
       ELSE Named({d \in NamedDoubles : ReadsAs(dec, d)})

\* the text has a decimal point, a comma or an exponent
HasFraction(s) == \E i \in 1..Len(s) : s[i] \in {".", ",", "e", "E"}

\* CPLAtof(): NaN for "nan", else the double of the decimal number the text
\* begins with (leading spaces skipped)
CPLAtof(s) ==
    LET t == SkipSpaces(s) IN
    IF Len(t) >= 3 /\ SubSeq(t, 1, 3) = <<"n", "a", "n">> THEN NaN
    ELSE IF ~HasFraction(t) /\ Len(LeadingDigits(IF t # <<>> /\ Head(t) \in {"-", "+"} THEN Tail(t) ELSE t)) <= 9 THEN atoi(t)
    ELSE NearestDouble(ParseDecimal(t, "."))

\* CPLAtofM(): as CPLAtof(), the decimal point a point or a comma
CPLAtofM(s) ==
    LET t == SkipSpaces(s)
        point == IF \E i \in 1..Len(t) : t[i] = "," THEN "," ELSE "."
    IN IF Len(t) >= 3 /\ SubSeq(t, 1, 3) = <<"n", "a", "n">> THEN NaN
       ELSE IF ~HasFraction(t) /\ Len(LeadingDigits(IF t # <<>> /\ Head(t) \in {"-", "+"} THEN Tail(t) ELSE t)) <= 9 THEN atoi(t)
       ELSE NearestDouble(ParseDecimal(t, point))

\* d is a whole number
IsWhole(d) == d \notin NamedDoubles \/ Len(ExactDigits(d)) <= ExponentOf(d) + 1

\* floor(): the doubles of the model that are no whole numbers lie between
\* 0 and 1
floor(d) == IF CPLIsNan(d) \/ IsWhole(d) THEN d ELSE 0

(***************************************************************************)
(* The eight bytes of a double, in little-endian order and written in hex. *)
(***************************************************************************)
HexChars == <<"0", "1", "2", "3", "4", "5", "6", "7", "8", "9", "A", "B", "C", "D", "E", "F">>

\* the text of n in hex, of k characters
RECURSIVE FormatHex(_, _)
FormatHex(n, k) ==
    IF k = 0 THEN <<>> ELSE FormatHex(n \div 16, k - 1) \o <<HexChars[(n % 16) + 1]>>

\* the whole number e with 2^e <= n < 2^(e+1), for n > 0
RECURSIVE Log2(_)
Log2(n) == IF n < 2 THEN 0 ELSE 1 + Log2(n \div 2)

\* 2^e
RECURSIVE Pow2(_)
Pow2(e) == IF e = 0 THEN 1 ELSE 2 * Pow2(e - 1)

\* the upper four bytes of a whole number 0 < n < 2^20 as a double: the
\* biased exponent and the upper 20 bits of the fraction (the lower four
\* bytes are 0)
UpperWord(n) == (1023 + Log2(n)) * Pow2(20) + (n - Pow2(Log2(n))) * Pow2(20 - Log2(n))

\* the bytes of a text of hex in the reverse order
RECURSIVE ReverseBytes(_)
ReverseBytes(hex) ==
    IF Len(hex) < 2 THEN <<>> ELSE ReverseBytes(SubSeq(hex, 3, Len(hex))) \o SubSeq(hex, 1, 2)

\* CPLBinaryToHex() of the eight bytes of a double after CPL_LSBPTR64(): of
\* a named double, of the default nodata value (-1e10), of NaN and of a whole
\* number 0 <= d < 2^20
LittleEndianHex(d) ==
    CASE d = DBL_HALF -> <<"0", "0", "0", "0", "0", "0", "0", "0", "0", "0", "0", "0", "E", "0", "3", "F">>
      [] d = DBL_0_3 -> <<"3", "3", "3", "3", "3", "3", "3", "3", "3", "3", "3", "3", "D", "3", "3", "F">>
      [] d = DBL_0_30000000000000004 -> <<"3", "4", "3", "3", "3", "3", "3", "3", "3", "3", "3", "3", "D", "3", "3", "F">>
      [] d = DBL_2_53 -> <<"0", "0", "0", "0", "0", "0", "0", "0", "0", "0", "0", "0", "4", "0", "4", "3">>
      [] d = DBL_2_53_LESS_2 -> <<"F", "E", "F", "F", "F", "F", "F", "F", "F", "F", "F", "F", "3", "F", "4", "3">>
      [] d = GDAL_PAM_DEFAULT_NODATA_VALUE -> <<"0", "0", "0", "0", "0", "0", "2", "0", "5", "F", "A", "0", "0", "2", "C", "2">>
      [] d = NaN -> <<"0", "0", "0", "0", "0", "0", "0", "0", "0", "0", "0", "0", "F", "8", "7", "F">>
      [] d = 0 -> FormatHex(0, 16)
      [] OTHER -> FormatHex(0, 8) \o ReverseBytes(FormatHex(UpperWord(d), 8))

\* the doubles whose bytes the model can tell
HexDoubles == NamedDoubles \cup {NaN, GDAL_PAM_DEFAULT_NODATA_VALUE} \cup (0..(MaxDouble + 1))

\* CPLHexToBinary(): the number of bytes of the text
HexBytes(pszHex) == Len(pszHex) \div 2

\* the double whose eight bytes the text of hex holds
DoubleOfHex(pszHex) ==
    IF \E d \in HexDoubles : LittleEndianHex(d) = pszHex
    THEN CHOOSE d \in HexDoubles : LittleEndianHex(d) = pszHex
    ELSE DBL_OTHER

\* "%.16g" of a double of the model
FormatG16(d) ==
    IF CPLIsNan(d) THEN <<"n", "a", "n">>
    ELSE IF d \in NamedDoubles THEN FormatG16Decimal(d)
    ELSE FormatInt(d)

\* EQUAL(): comparison of two names without regard to case
UpperCase(psz) ==
    CASE psz = "HistItem" -> "HISTITEM"
      [] psz = "histitem" -> "HISTITEM"
      [] psz = "Metadata" -> "METADATA"
      [] psz = "m" -> "M"
      [] psz = "ft" -> "FT"
      [] OTHER -> psz

EQUAL(a, b) == UpperCase(a) = UpperCase(b)

\* ARE_REAL_EQUAL(): equal, or closer than 1e-10 absolutely or relatively;
\* the doubles of the model are whole numbers, so only equal ones are
ARE_REAL_EQUAL(dfVal1, dfVal2) == DblEQ(dfVal1, dfVal2)

(***************************************************************************)
(* A child of the Histograms element: its type and name and, when present, *)
(* the text of each of the fields the code reads.                          *)
(***************************************************************************)
XMLHistItem(pszMin, pszMax, pszBuckets, pszInclude, pszApprox, pszCounts) ==
    [ eType             |-> "CXT_Element",
      pszValue          |-> "HistItem",
      HistMin           |-> pszMin,
      HistMax           |-> pszMax,
      BucketCount       |-> pszBuckets,
      IncludeOutOfRange |-> pszInclude,
      Approximate       |-> pszApprox,
      HistCounts        |-> pszCounts ]

\* CPLGetXMLValue(): the text of the field, or the default if there is none
CPLGetXMLValue(psRoot, pszPath, pszDefault) ==
    IF IsNull(psRoot[pszPath]) THEN pszDefault ELSE Deref(psRoot[pszPath])

\* CPLRemoveXMLChild() that leaves the child in the list
CPLRemoveXMLChild_Keep(psChild, i) == psChild

\* CPLRemoveXMLChild(): the children without the i-th
CPLRemoveXMLChild(psChild, i) ==
    SubSeq(psChild, 1, i - 1) \o SubSeq(psChild, i + 1, Len(psChild))

\* the pixel types the code distinguishes: Int64, UInt64 and any other
DataTypes == {"GDT_Byte", "GDT_Int64", "GDT_UInt64"}

\* what GetDataset() can give: no dataset, a dataset without GMO_PAM_CLASS,
\* a GDALPamDataset, or a dataset that sets GMO_PAM_CLASS without being one
DatasetKinds == {"nullptr", "GDALDataset", "GDALPamDataset", "NotPamDataset"}

VARIABLES
    eDataType,       \* GDALRasterBand::eDataType
    poDS,            \* the kind of dataset GetDataset() returns
    bPamEnabled,     \* whether the dataset's PamInitialize() can create its store
    dsPam,           \* poParentDS->psPam != nullptr
    bDirty,          \* GPF_DIRTY of the dataset's nPamFlags
    psPam,           \* the band's record (psPam.alloc = FALSE: nullptr)
    sDescription,    \* GDALMajorObject::sDescription
    oMDMD,           \* GDALMajorObject::oMDMD, the metadata of the band
    nBand,           \* GDALRasterBand::nBand, what GetBand() returns
    nFlags,          \* GDALMajorObject::nFlags, the set of the GMO_ flags raised
    heap,            \* the objects behind the pointers, where addresses are followed
    lastOp,          \* the last call: its name, argument and outcome
    lastSet          \* history: what each setter was last given on this record

vars == <<eDataType, poDS, bPamEnabled, dsPam, bDirty, psPam, sDescription, oMDMD, nBand, nFlags, heap, lastOp, lastSet>>

(***************************************************************************)
(* The record.                                                             *)
(***************************************************************************)
\* a newly constructed GDALRasterBandPamInfo, not linked to a parent
DefaultPam ==
    [ alloc                   |-> TRUE,
      poParentDS              |-> FALSE,
      bNoDataValueSet         |-> FALSE,
      bNoDataValueSetAsInt64  |-> FALSE,
      bNoDataValueSetAsUInt64 |-> FALSE,
      dfNoDataValue           |-> GDAL_PAM_DEFAULT_NODATA_VALUE,
      nNoDataValueInt64       |-> GDAL_PAM_DEFAULT_NODATA_VALUE_INT64,
      nNoDataValueUInt64      |-> GDAL_PAM_DEFAULT_NODATA_VALUE_UINT64,
      dfOffset                |-> 0,
      dfScale                 |-> 1,
      bOffsetSet              |-> FALSE,
      bScaleSet               |-> FALSE,
      pszUnitType             |-> NULL,
      eColorInterp            |-> "GCI_Undefined",
      papszCategoryNames      |-> NULL,
      poColorTable            |-> NULL,
      poDefaultRAT            |-> NULL,
      bHaveMinMax             |-> FALSE,
      dfMin                   |-> 0,
      dfMax                   |-> 0,
      bHaveStats              |-> FALSE,
      dfMean                  |-> 0,
      dfStdDev                |-> 0,
      psSavedHistograms       |-> NULL ]

\* the flags of a band as constructed: GMO_VALID, which GDALMajorObject
\* raises, and GMO_PAM_CLASS
MOFlagsAsConstructed == {"GMO_VALID", "GMO_PAM_CLASS"}

\* psPam == nullptr
NullPam == [DefaultPam EXCEPT !.alloc = FALSE]

\* The fields of the band and of its dataset a method can change, and whether
\* the dataset's MarkPamDirty() was called since the method was entered.
Band(p, d, dirty, desc, md, n, f) ==
    [psPam |-> p, dsPam |-> d, bDirty |-> dirty, sDescription |-> desc, oMDMD |-> md, nBand |-> n, nFlags |-> f, marked |-> FALSE]

Cur == Band(psPam, dsPam, bDirty, sDescription, oMDMD, nBand, nFlags)

\* what a method hands back: the band after it, its return value, the value
\* written through pbSuccess, whether an error was reported and whether the
\* GDALRasterBand implementation was called instead
Outcome(b, ret, ok, err, delegated) ==
    [b |-> b, ret |-> ret, ok |-> ok, err |-> err, delegated |-> delegated]

\* a method without a return value
Void(b) == Outcome(b, "void", FALSE, FALSE, FALSE)

(***************************************************************************)
(* Lazy initialization.                                                    *)
(***************************************************************************)
\* GDALPamDataset::PamInitialize(): whether the dataset has a store afterwards
DatasetPamInitialize(d) == d \/ bPamEnabled

\* GDALPamDataset::MarkPamDirty()
DatasetMarkPamDirty(b) == [b EXCEPT !.bDirty = TRUE, !.marked = TRUE]

\* PamInitialize() without the early return on a linked record
PamInitialize_Always(b, bAllocOK) ==
    IF poDS # "GDALPamDataset"
    THEN b
    ELSE IF ~DatasetPamInitialize(b.dsPam)
    THEN [b EXCEPT !.psPam = NullPam]
    ELSE [b EXCEPT !.dsPam = TRUE,
                   !.psPam = IF bAllocOK
                             THEN [DefaultPam EXCEPT !.poParentDS = TRUE]
                             ELSE NullPam]

\* PamInitialize() that links the record PamInitializeNoParent() made to the
\* store in place of deleting it
PamInitialize_KeepUnlinked(b, bAllocOK) ==
    IF (b.psPam.alloc /\ b.psPam.poParentDS) \/ poDS # "GDALPamDataset"
    THEN b
    ELSE IF ~DatasetPamInitialize(b.dsPam)
    THEN [b EXCEPT !.psPam = NullPam]
    ELSE [b EXCEPT !.dsPam = TRUE,
                   !.psPam = IF b.psPam.alloc
                             THEN [b.psPam EXCEPT !.poParentDS = TRUE]
                             ELSE IF bAllocOK
                                  THEN [DefaultPam EXCEPT !.poParentDS = TRUE]
                                  ELSE NullPam]

PamInitialize(b, bAllocOK) ==
    IF b.psPam.alloc /\ b.psPam.poParentDS
    THEN b
    ELSE IF poDS = "nullptr" \/ poDS = "GDALDataset"
    THEN b
    ELSE IF poDS = "NotPamDataset"
    THEN b
    ELSE LET d == DatasetPamInitialize(b.dsPam) IN
         IF ~d
         THEN [b EXCEPT !.psPam = NullPam]
         ELSE [b EXCEPT !.dsPam = TRUE,
                        !.psPam = IF bAllocOK
                                  THEN [DefaultPam EXCEPT !.poParentDS = TRUE]
                                  ELSE NullPam]

\* PamInitializeNoParent() without the test for an existing record
PamInitializeNoParent_Always(b, bAllocOK) ==
    [b EXCEPT !.psPam = IF bAllocOK THEN DefaultPam ELSE NullPam]

PamInitializeNoParent(b, bAllocOK) ==
    IF ~b.psPam.alloc
    THEN [b EXCEPT !.psPam = IF bAllocOK THEN DefaultPam ELSE NullPam]
    ELSE b

MarkPamDirty(b) ==
    IF b.psPam.alloc /\ b.psPam.poParentDS THEN DatasetMarkPamDirty(b) ELSE b

(***************************************************************************)
(* The GDALRasterBand implementations the methods fall back on.            *)
(***************************************************************************)
\* GDALRasterBand::Set...(): stores nothing and returns CE_Failure
GDALRasterBand_Set(b) == Outcome(b, "CE_Failure", FALSE, FALSE, TRUE)

\* GDALRasterBand::Get...(): the default value, with *pbSuccess = FALSE
GDALRasterBand_Get(b, default) == Outcome(b, default, FALSE, FALSE, TRUE)

\* the exact value as a double, but for the largest uint64 (2^64 - 1), which no
\* double holds: the cast gives the next one, 2^64
GDALGetNoDataValueCastToDouble(n) ==
    IF n = GDAL_PAM_DEFAULT_NODATA_VALUE_UINT64 THEN n + 1 ELSE n

(***************************************************************************)
(* Nodata.                                                                 *)
(***************************************************************************)
ResetNoDataValues(p) ==
    [p EXCEPT !.bNoDataValueSet = FALSE,
              !.bNoDataValueSetAsInt64 = FALSE,
              !.bNoDataValueSetAsUInt64 = FALSE,
              !.dfNoDataValue = GDAL_PAM_DEFAULT_NODATA_VALUE,
              !.nNoDataValueInt64 = GDAL_PAM_DEFAULT_NODATA_VALUE_INT64,
              !.nNoDataValueUInt64 = GDAL_PAM_DEFAULT_NODATA_VALUE_UINT64]

\* SetNoDataValue() with the equality test of SetOffset(): dirty only on a change
SetNoDataValue_IfChanged(b, dfNewValue, bAllocOK) ==
    LET b1 == PamInitialize(b, bAllocOK) IN
    IF ~b1.psPam.alloc
    THEN GDALRasterBand_Set(b1)
    ELSE LET p == [ResetNoDataValues(b1.psPam) EXCEPT !.bNoDataValueSet = TRUE,
                                                      !.dfNoDataValue = dfNewValue]
             b2 == [b1 EXCEPT !.psPam = p]
         IN Outcome(IF p # b1.psPam THEN MarkPamDirty(b2) ELSE b2,
                    "CE_None", FALSE, FALSE, FALSE)

SetNoDataValue(b, dfNewValue, bAllocOK) ==
    LET b1 == PamInitialize(b, bAllocOK) IN
    IF ~b1.psPam.alloc
    THEN GDALRasterBand_Set(b1)
    ELSE LET b2 == [b1 EXCEPT !.psPam = [ResetNoDataValues(@) EXCEPT
                                            !.bNoDataValueSet = TRUE,
                                            !.dfNoDataValue = dfNewValue]]
         IN Outcome(MarkPamDirty(b2), "CE_None", FALSE, FALSE, FALSE)

\* SetNoDataValueAsInt64() without the call of ResetNoDataValues()
SetNoDataValueAsInt64_NoReset(b, nNewValue, bAllocOK) ==
    LET b1 == PamInitialize(b, bAllocOK) IN
    IF ~b1.psPam.alloc
    THEN GDALRasterBand_Set(b1)
    ELSE LET b2 == [b1 EXCEPT !.psPam.bNoDataValueSetAsInt64 = TRUE,
                              !.psPam.nNoDataValueInt64 = nNewValue]
         IN Outcome(MarkPamDirty(b2), "CE_None", FALSE, FALSE, FALSE)

SetNoDataValueAsInt64(b, nNewValue, bAllocOK) ==
    LET b1 == PamInitialize(b, bAllocOK) IN
    IF ~b1.psPam.alloc
    THEN GDALRasterBand_Set(b1)
    ELSE LET b2 == [b1 EXCEPT !.psPam = [ResetNoDataValues(@) EXCEPT
                                            !.bNoDataValueSetAsInt64 = TRUE,
                                            !.nNoDataValueInt64 = nNewValue]]
         IN Outcome(MarkPamDirty(b2), "CE_None", FALSE, FALSE, FALSE)

SetNoDataValueAsUInt64(b, nNewValue, bAllocOK) ==
    LET b1 == PamInitialize(b, bAllocOK) IN
    IF ~b1.psPam.alloc
    THEN GDALRasterBand_Set(b1)
    ELSE LET b2 == [b1 EXCEPT !.psPam = [ResetNoDataValues(@) EXCEPT
                                            !.bNoDataValueSetAsUInt64 = TRUE,
                                            !.nNoDataValueUInt64 = nNewValue]]
         IN Outcome(MarkPamDirty(b2), "CE_None", FALSE, FALSE, FALSE)

DeleteNoDataValue(b, bAllocOK) ==
    LET b1 == PamInitialize(b, bAllocOK) IN
    IF ~b1.psPam.alloc
    THEN GDALRasterBand_Set(b1)
    ELSE LET b2 == [b1 EXCEPT !.psPam = ResetNoDataValues(@)]
         IN Outcome(MarkPamDirty(b2), "CE_None", FALSE, FALSE, FALSE)

GetNoDataValue(b) ==
    IF ~b.psPam.alloc
    THEN GDALRasterBand_Get(b, GDAL_PAM_DEFAULT_NODATA_VALUE)
    ELSE IF b.psPam.bNoDataValueSetAsInt64
    THEN Outcome(b, GDALGetNoDataValueCastToDouble(b.psPam.nNoDataValueInt64),
                 TRUE, FALSE, FALSE)
    ELSE IF b.psPam.bNoDataValueSetAsUInt64
    THEN Outcome(b, GDALGetNoDataValueCastToDouble(b.psPam.nNoDataValueUInt64),
                 TRUE, FALSE, FALSE)
    ELSE Outcome(b, b.psPam.dfNoDataValue, b.psPam.bNoDataValueSet, FALSE, FALSE)

\* GetNoDataValueAsInt64() without the tests of the pixel type
GetNoDataValueAsInt64_AnyType(b) ==
    IF ~b.psPam.alloc
    THEN GDALRasterBand_Get(b, GDAL_PAM_DEFAULT_NODATA_VALUE_INT64)
    ELSE Outcome(b, b.psPam.nNoDataValueInt64, b.psPam.bNoDataValueSetAsInt64,
                 FALSE, FALSE)

GetNoDataValueAsInt64(b) ==
    IF ~b.psPam.alloc
    THEN GDALRasterBand_Get(b, GDAL_PAM_DEFAULT_NODATA_VALUE_INT64)
    ELSE IF eDataType = "GDT_UInt64"
    THEN Outcome(b, GDAL_PAM_DEFAULT_NODATA_VALUE_INT64, FALSE, TRUE, FALSE)
    ELSE IF eDataType # "GDT_Int64"
    THEN Outcome(b, GDAL_PAM_DEFAULT_NODATA_VALUE_INT64, FALSE, TRUE, FALSE)
    ELSE Outcome(b, b.psPam.nNoDataValueInt64, b.psPam.bNoDataValueSetAsInt64,
                 FALSE, FALSE)

GetNoDataValueAsUInt64(b) ==
    IF ~b.psPam.alloc
    THEN GDALRasterBand_Get(b, GDAL_PAM_DEFAULT_NODATA_VALUE_UINT64)
    ELSE IF eDataType = "GDT_Int64"
    THEN Outcome(b, GDAL_PAM_DEFAULT_NODATA_VALUE_UINT64, FALSE, TRUE, FALSE)
    ELSE IF eDataType # "GDT_UInt64"
    THEN Outcome(b, GDAL_PAM_DEFAULT_NODATA_VALUE_UINT64, FALSE, TRUE, FALSE)
    ELSE Outcome(b, b.psPam.nNoDataValueUInt64, b.psPam.bNoDataValueSetAsUInt64,
                 FALSE, FALSE)

(***************************************************************************)
(* Offset, scale, unit type and description.                               *)
(***************************************************************************)
\* GetOffset() that calls PamInitialize() first, as GetDefaultRAT() does
GetOffset_Initializes(b) ==
    LET b1 == PamInitialize(b, TRUE) IN
    IF ~b1.psPam.alloc
    THEN GDALRasterBand_Get(b1, 0)
    ELSE Outcome(b1, b1.psPam.dfOffset, b1.psPam.bOffsetSet, FALSE, FALSE)

GetOffset(b) ==
    IF ~b.psPam.alloc
    THEN GDALRasterBand_Get(b, 0)
    ELSE Outcome(b, b.psPam.dfOffset, b.psPam.bOffsetSet, FALSE, FALSE)

\* SetOffset() marking dirty on every call, as SetNoDataValue() does
SetOffset_AlwaysDirty(b, dfNewOffset, bAllocOK) ==
    LET b1 == PamInitialize(b, bAllocOK) IN
    IF ~b1.psPam.alloc
    THEN GDALRasterBand_Set(b1)
    ELSE Outcome(MarkPamDirty([b1 EXCEPT !.psPam.dfOffset = dfNewOffset,
                                         !.psPam.bOffsetSet = TRUE]),
                 "CE_None", FALSE, FALSE, FALSE)

SetOffset(b, dfNewOffset, bAllocOK) ==
    LET b1 == PamInitialize(b, bAllocOK) IN
    IF ~b1.psPam.alloc
    THEN GDALRasterBand_Set(b1)
    ELSE IF ~b1.psPam.bOffsetSet \/ DblNE(b1.psPam.dfOffset, dfNewOffset)
    THEN Outcome(MarkPamDirty([b1 EXCEPT !.psPam.dfOffset = dfNewOffset,
                                         !.psPam.bOffsetSet = TRUE]),
                 "CE_None", FALSE, FALSE, FALSE)
    ELSE Outcome(b1, "CE_None", FALSE, FALSE, FALSE)

\* GetScale() reporting success whether or not a scale was set
GetScale_AlwaysSet(b) ==
    IF ~b.psPam.alloc
    THEN GDALRasterBand_Get(b, 1)
    ELSE Outcome(b, b.psPam.dfScale, TRUE, FALSE, FALSE)

GetScale(b) ==
    IF ~b.psPam.alloc
    THEN GDALRasterBand_Get(b, 1)
    ELSE Outcome(b, b.psPam.dfScale, b.psPam.bScaleSet, FALSE, FALSE)

\* SetScale() that reports success where it has no record to store into
SetScale_NoFallback(b, dfNewScale, bAllocOK) ==
    LET b1 == PamInitialize(b, bAllocOK) IN
    IF ~b1.psPam.alloc
    THEN Outcome(b1, "CE_None", FALSE, FALSE, FALSE)
    ELSE IF ~b1.psPam.bScaleSet \/ DblNE(dfNewScale, b1.psPam.dfScale)
    THEN Outcome(MarkPamDirty([b1 EXCEPT !.psPam.dfScale = dfNewScale,
                                         !.psPam.bScaleSet = TRUE]),
                 "CE_None", FALSE, FALSE, FALSE)
    ELSE Outcome(b1, "CE_None", FALSE, FALSE, FALSE)

SetScale(b, dfNewScale, bAllocOK) ==
    LET b1 == PamInitialize(b, bAllocOK) IN
    IF ~b1.psPam.alloc
    THEN GDALRasterBand_Set(b1)
    ELSE IF ~b1.psPam.bScaleSet \/ DblNE(dfNewScale, b1.psPam.dfScale)
    THEN Outcome(MarkPamDirty([b1 EXCEPT !.psPam.dfScale = dfNewScale,
                                         !.psPam.bScaleSet = TRUE]),
                 "CE_None", FALSE, FALSE, FALSE)
    ELSE Outcome(b1, "CE_None", FALSE, FALSE, FALSE)

GetUnitType(b) ==
    IF ~b.psPam.alloc
    THEN GDALRasterBand_Get(b, "")
    ELSE IF IsNull(b.psPam.pszUnitType)
    THEN Outcome(b, "", FALSE, FALSE, FALSE)
    ELSE Outcome(b, Deref(b.psPam.pszUnitType), FALSE, FALSE, FALSE)

\* pszNewValue is NULL or points to a string
SetUnitType(b, pszNewValue, bAllocOK) ==
    LET b1 == PamInitialize(b, bAllocOK) IN
    IF ~b1.psPam.alloc
    THEN GDALRasterBand_Set(b1)
    ELSE IF IsNull(pszNewValue) \/ Deref(pszNewValue) = ""
    THEN LET b2 == IF ~IsNull(b1.psPam.pszUnitType) THEN MarkPamDirty(b1) ELSE b1
         IN Outcome([b2 EXCEPT !.psPam.pszUnitType = NULL],
                    "CE_None", FALSE, FALSE, FALSE)
    ELSE LET b2 == IF IsNull(b1.psPam.pszUnitType)
                      \/ Deref(b1.psPam.pszUnitType) # Deref(pszNewValue)
                   THEN MarkPamDirty(b1) ELSE b1
         IN Outcome([b2 EXCEPT !.psPam.pszUnitType = Ptr(Deref(pszNewValue))],
                    "CE_None", FALSE, FALSE, FALSE)

\* GDALMajorObject::GetDescription()
GetDescription(b) == b.sDescription

SetDescription(b, pszDescription, bAllocOK) ==
    LET b1 == PamInitialize(b, bAllocOK)
        b2 == IF b1.psPam.alloc /\ pszDescription # GetDescription(b1)
              THEN MarkPamDirty(b1) ELSE b1
    IN Void([b2 EXCEPT !.sDescription = pszDescription])

(***************************************************************************)
(* Category names, colour table, colour interpretation, attribute table.   *)
(***************************************************************************)
\* CSLDuplicate(): a copy of the list; nullptr for nullptr and for a list
\* without entries
CSLDuplicate(papszStrList) ==
    IF IsNull(papszStrList) \/ Len(Deref(papszStrList)) = 0
    THEN NULL
    ELSE Ptr(Deref(papszStrList))

\* GDALColorTable::Clone(), GDALRasterAttributeTable::Clone()
Clone(po) == Ptr(Deref(po))

GetCategoryNames(b) ==
    IF b.psPam.alloc
    THEN Outcome(b, b.psPam.papszCategoryNames, FALSE, FALSE, FALSE)
    ELSE GDALRasterBand_Get(b, NULL)

\* SetCategoryNames() with the equality test of SetUnitType()
SetCategoryNames_IfChanged(b, papszNewNames, bAllocOK) ==
    LET b1 == PamInitialize(b, bAllocOK) IN
    IF ~b1.psPam.alloc
    THEN GDALRasterBand_Set(b1)
    ELSE LET b2 == [b1 EXCEPT !.psPam.papszCategoryNames = CSLDuplicate(papszNewNames)]
         IN Outcome(IF b2.psPam # b1.psPam THEN MarkPamDirty(b2) ELSE b2,
                    "CE_None", FALSE, FALSE, FALSE)

SetCategoryNames(b, papszNewNames, bAllocOK) ==
    LET b1 == PamInitialize(b, bAllocOK) IN
    IF ~b1.psPam.alloc
    THEN GDALRasterBand_Set(b1)
    ELSE Outcome(MarkPamDirty([b1 EXCEPT !.psPam.papszCategoryNames =
                                             CSLDuplicate(papszNewNames)]),
                 "CE_None", FALSE, FALSE, FALSE)

GetColorTable(b) ==
    IF b.psPam.alloc
    THEN Outcome(b, b.psPam.poColorTable, FALSE, FALSE, FALSE)
    ELSE GDALRasterBand_Get(b, NULL)

\* SetColorTable() that makes the colour interpretation GCI_PaletteIndex for
\* nullptr too
SetColorTable_PaletteAlways(b, poTableIn, bAllocOK) ==
    LET b1 == PamInitialize(b, bAllocOK) IN
    IF ~b1.psPam.alloc
    THEN GDALRasterBand_Set(b1)
    ELSE Outcome(MarkPamDirty([b1 EXCEPT !.psPam.poColorTable =
                                             IF IsNull(poTableIn) THEN NULL ELSE Clone(poTableIn),
                                         !.psPam.eColorInterp = "GCI_PaletteIndex"]),
                 "CE_None", FALSE, FALSE, FALSE)

SetColorTable(b, poTableIn, bAllocOK) ==
    LET b1 == PamInitialize(b, bAllocOK) IN
    IF ~b1.psPam.alloc
    THEN GDALRasterBand_Set(b1)
    ELSE LET b2 == [b1 EXCEPT !.psPam.poColorTable = NULL]
             b3 == IF ~IsNull(poTableIn)
                   THEN [b2 EXCEPT !.psPam.poColorTable = Clone(poTableIn),
                                   !.psPam.eColorInterp = "GCI_PaletteIndex"]
                   ELSE b2
         IN Outcome(MarkPamDirty(b3), "CE_None", FALSE, FALSE, FALSE)

SetColorInterpretation(b, eInterpIn, bAllocOK) ==
    LET b1 == PamInitialize(b, bAllocOK) IN
    IF b1.psPam.alloc
    THEN Outcome([MarkPamDirty(b1) EXCEPT !.psPam.eColorInterp = eInterpIn],
                 "CE_None", FALSE, FALSE, FALSE)
    ELSE GDALRasterBand_Set(b1)

GetColorInterpretation(b) ==
    IF b.psPam.alloc
    THEN Outcome(b, b.psPam.eColorInterp, FALSE, FALSE, FALSE)
    ELSE GDALRasterBand_Get(b, "GCI_Undefined")

GetDefaultRAT(b, bAllocOK) ==
    LET b1 == PamInitialize(b, bAllocOK) IN
    IF ~b1.psPam.alloc
    THEN GDALRasterBand_Get(b1, NULL)
    ELSE Outcome(b1, b1.psPam.poDefaultRAT, FALSE, FALSE, FALSE)

SetDefaultRAT(b, poRAT, bAllocOK) ==
    LET b1 == PamInitialize(b, bAllocOK) IN
    IF ~b1.psPam.alloc
    THEN GDALRasterBand_Set(b1)
    ELSE LET b2 == [MarkPamDirty(b1) EXCEPT !.psPam.poDefaultRAT = NULL]
         IN Outcome(IF IsNull(poRAT)
                    THEN [b2 EXCEPT !.psPam.poDefaultRAT = NULL]
                    ELSE [b2 EXCEPT !.psPam.poDefaultRAT = Clone(poRAT)],
                    "CE_None", FALSE, FALSE, FALSE)

(***************************************************************************)
(* Histograms.  psSavedHistograms is a null pointer or points to the       *)
(* sequence of the children of the Histograms element; a node of it is     *)
(* named by its position, and 0 stands for nullptr.                        *)
(***************************************************************************)
\* PamFindMatchingHistogram() without the test of Approximate
PamFindMatchingHistogram_AnyApprox(psSavedHistograms, dfMin, dfMax, nBuckets, bIncludeOutOfRange, bApproxOK) ==
    IF IsNull(psSavedHistograms)
    THEN 0
    ELSE LET psChild == Deref(psSavedHistograms)
             scan[i \in 1..(Len(psChild) + 1)] ==
                 IF i > Len(psChild)
                 THEN 0
                 ELSE LET psXMLHist == psChild[i] IN
                      IF \/ psXMLHist.eType # "CXT_Element"
                         \/ ~EQUAL(psXMLHist.pszValue, "HistItem")
                      THEN scan[i + 1]
                      ELSE LET dfHistMin == CPLAtofM(CPLGetXMLValue(psXMLHist, "HistMin", <<"0">>))
                               dfHistMax == CPLAtofM(CPLGetXMLValue(psXMLHist, "HistMax", <<"0">>))
                           IN IF \/ ~ARE_REAL_EQUAL(dfHistMin, dfMin)
                                 \/ ~ARE_REAL_EQUAL(dfHistMax, dfMax)
                                 \/ atoi(CPLGetXMLValue(psXMLHist, "BucketCount", <<"0">>)) # nBuckets
                                 \/ (atoi(CPLGetXMLValue(psXMLHist, "IncludeOutOfRange", <<"0">>)) = 0)
                                       # (bIncludeOutOfRange = 0)
                              THEN scan[i + 1]
                              ELSE i
         IN scan[1]

PamFindMatchingHistogram(psSavedHistograms, dfMin, dfMax, nBuckets, bIncludeOutOfRange, bApproxOK) ==
    IF IsNull(psSavedHistograms)
    THEN 0
    ELSE LET psChild == Deref(psSavedHistograms)
             scan[i \in 1..(Len(psChild) + 1)] ==
                 IF i > Len(psChild)
                 THEN 0
                 ELSE LET psXMLHist == psChild[i] IN
                      IF \/ psXMLHist.eType # "CXT_Element"
                         \/ ~EQUAL(psXMLHist.pszValue, "HistItem")
                      THEN scan[i + 1]
                      ELSE LET dfHistMin == CPLAtofM(CPLGetXMLValue(psXMLHist, "HistMin", <<"0">>))
                               dfHistMax == CPLAtofM(CPLGetXMLValue(psXMLHist, "HistMax", <<"0">>))
                           IN IF \/ ~ARE_REAL_EQUAL(dfHistMin, dfMin)
                                 \/ ~ARE_REAL_EQUAL(dfHistMax, dfMax)
                                 \/ atoi(CPLGetXMLValue(psXMLHist, "BucketCount", <<"0">>)) # nBuckets
                                 \/ (atoi(CPLGetXMLValue(psXMLHist, "IncludeOutOfRange", <<"0">>)) = 0)
                                       # (bIncludeOutOfRange = 0)
                                 \/ /\ bApproxOK = 0
                                    /\ atoi(CPLGetXMLValue(psXMLHist, "Approximate", <<"0">>)) # 0
                              THEN scan[i + 1]
                              ELSE i
         IN scan[1]

\* the text of the first nBuckets counts, with '|' between them
RECURSIVE HistCountsText(_, _, _)
HistCountsText(panHistogram, iBucket, nBuckets) ==
    IF iBucket >= nBuckets
    THEN <<>>
    ELSE FormatInt(panHistogram[iBucket + 1])
           \o (IF iBucket < nBuckets - 1 THEN <<"|">> ELSE <<>>)
           \o HistCountsText(panHistogram, iBucket + 1, nBuckets)

\* bMallocOK: whether VSIMalloc gives the buffer of the counts
PamHistogramToXMLTree(dfMin, dfMax, nBuckets, panHistogram, bIncludeOutOfRange, bApprox, bMallocOK) ==
    IF nBuckets > (INT_MAX - 10) \div 12
    THEN NULL
    ELSE IF ~bMallocOK
    THEN NULL
    ELSE Ptr(XMLHistItem(Ptr(FormatG16(dfMin)), Ptr(FormatG16(dfMax)),
                         Ptr(FormatInt(nBuckets)), Ptr(FormatInt(bIncludeOutOfRange)),
                         Ptr(FormatInt(bApprox)),
                         Ptr(HistCountsText(panHistogram, 0, nBuckets))))

\* SetDefaultHistogram() putting the new node at the end of the list
SetDefaultHistogram_AtEnd(b, dfMin, dfMax, nBuckets, panHistogram, bAllocOK, bMallocOK) ==
    LET b1 == PamInitialize(b, bAllocOK) IN
    IF ~b1.psPam.alloc
    THEN GDALRasterBand_Set(b1)
    ELSE LET psNode == PamFindMatchingHistogram(b1.psPam.psSavedHistograms,
                                                dfMin, dfMax, nBuckets, 1, 1)
             b2 == IF psNode # 0
                   THEN [b1 EXCEPT !.psPam.psSavedHistograms =
                            Ptr(CPLRemoveXMLChild(Deref(@), psNode))]
                   ELSE b1
             psHistItem == PamHistogramToXMLTree(dfMin, dfMax, nBuckets,
                                                 panHistogram, 1, 0, bMallocOK)
         IN IF IsNull(psHistItem)
            THEN Outcome(b2, "CE_Failure", FALSE, FALSE, FALSE)
            ELSE LET b3 == MarkPamDirty(b2)
                     psChild == IF IsNull(b3.psPam.psSavedHistograms)
                                THEN <<>>
                                ELSE Deref(b3.psPam.psSavedHistograms)
                 IN Outcome([b3 EXCEPT !.psPam.psSavedHistograms =
                                           Ptr(Append(psChild, Deref(psHistItem)))],
                            "CE_None", FALSE, FALSE, FALSE)

SetDefaultHistogram(b, dfMin, dfMax, nBuckets, panHistogram, bAllocOK, bMallocOK) ==
    LET \* b1: after PamInitialize(); b2: without the node found; b3: marked
        Inserted(b3, psHistItem, psChild) ==
            Outcome([b3 EXCEPT !.psPam.psSavedHistograms =
                                   Ptr(<<Deref(psHistItem)>> \o psChild)],
                    "CE_None", FALSE, FALSE, FALSE)
        Marked(b3, psHistItem) ==
            Inserted(b3, psHistItem,
                     IF IsNull(b3.psPam.psSavedHistograms)
                     THEN <<>>
                     ELSE Deref(b3.psPam.psSavedHistograms))
        Removed(b2, psHistItem) ==
            IF IsNull(psHistItem)
            THEN Outcome(b2, "CE_Failure", FALSE, FALSE, FALSE)
            ELSE Marked(MarkPamDirty(b2), psHistItem)
        Searched(b1, psNode) ==
            Removed(IF psNode # 0
                    THEN [b1 EXCEPT !.psPam.psSavedHistograms =
                             Ptr(CPLRemoveXMLChild(Deref(@), psNode))]
                    ELSE b1,
                    PamHistogramToXMLTree(dfMin, dfMax, nBuckets, panHistogram, 1, 0,
                                          bMallocOK))
        Initialized(b1) ==
            IF ~b1.psPam.alloc
            THEN GDALRasterBand_Set(b1)
            ELSE Searched(b1, PamFindMatchingHistogram(b1.psPam.psSavedHistograms,
                                                       dfMin, dfMax, nBuckets, 1, 1))
    IN Initialized(PamInitialize(b, bAllocOK))

\* the text after the next '|', or the empty end of the text
RECURSIVE SkipToNextNumber(_)
SkipToNextNumber(pszHistCounts) ==
    IF pszHistCounts = <<>>
    THEN <<>>
    ELSE IF Head(pszHistCounts) = "|"
    THEN Tail(pszHistCounts)
    ELSE SkipToNextNumber(Tail(pszHistCounts))

\* the loop of PamParseHistogram(): CPLAtoGIntBig() of each number in turn
RECURSIVE ParseHistCounts(_, _, _)
ParseHistCounts(pszHistCounts, iBucket, nBuckets) ==
    IF iBucket >= nBuckets
    THEN <<>>
    ELSE <<atoi(pszHistCounts)>>
           \o ParseHistCounts(SkipToNextNumber(pszHistCounts), iBucket + 1, nBuckets)

\* What PamParseHistogram() returns and writes through its pointers, with
\* ppanHistogram not null; bCallocOK: whether VSICalloc gives the buckets.
\* psHistItem is a node, never nullptr, where the code calls it.
PamParseHistogram(psHistItem, bCallocOK) ==
    LET Decoded(nBuckets, pszHistCounts, out) ==
            IF nBuckets <= 0 \/ nBuckets > INT_MAX \div 2
            THEN out
            ELSE IF Len(pszHistCounts) < 2 * nBuckets - 1
            THEN [out EXCEPT !.err = TRUE]
            ELSE IF ~bCallocOK
            THEN [out EXCEPT !.err = TRUE]
            ELSE [out EXCEPT !.bOK = TRUE,
                             !.panHistogram = Ptr(ParseHistCounts(pszHistCounts, 0, nBuckets))]
        Read(dfMin, dfMax, nBuckets) ==
            Decoded(nBuckets, CPLGetXMLValue(psHistItem, "HistCounts", <<>>),
                    [ bOK |-> FALSE, err |-> FALSE, dfMin |-> dfMin, dfMax |-> dfMax,
                      nBuckets |-> nBuckets, panHistogram |-> NULL ])
    IN Read(CPLAtofM(CPLGetXMLValue(psHistItem, "HistMin", <<"0">>)),
            CPLAtofM(CPLGetXMLValue(psHistItem, "HistMax", <<"1">>)),
            atoi(CPLGetXMLValue(psHistItem, "BucketCount", <<"2">>)))

\* what a histogram method hands back: its CPLErr and the histogram written
\* through its pointers (panHistogram NULL: nothing was written)
HistResult(eErr, dfMin, dfMax, nBuckets, panHistogram) ==
    [ eErr |-> eErr, dfMin |-> dfMin, dfMax |-> dfMax, nBuckets |-> nBuckets,
      panHistogram |-> panHistogram ]

\* GDALRasterBand::GetHistogram(): native is the outcome of the computation,
\* CE_Failure (also when the progress function stops it) or CE_None with the
\* counts
GDALRasterBand_GetHistogram(b, dfMin, dfMax, nBuckets, native) ==
    Outcome(b, HistResult(native.eErr, dfMin, dfMax, nBuckets, native.panHistogram),
            FALSE, FALSE, TRUE)

\* GetHistogram() that saves the description without MarkPamDirty()
GetHistogram_NoDirty(b, dfMin, dfMax, nBuckets, bIncludeOutOfRange, bApproxOK, native, bAllocOK, bCallocOK, bMallocOK) ==
    LET b1 == PamInitialize(b, bAllocOK) IN
    IF ~b1.psPam.alloc
    THEN GDALRasterBand_GetHistogram(b1, dfMin, dfMax, nBuckets, native)
    ELSE LET psHistItem == PamFindMatchingHistogram(b1.psPam.psSavedHistograms, dfMin, dfMax,
                                                    nBuckets, bIncludeOutOfRange, bApproxOK)
             parsed == IF psHistItem # 0
                       THEN PamParseHistogram(Deref(b1.psPam.psSavedHistograms)[psHistItem],
                                              bCallocOK)
                       ELSE [bOK |-> FALSE, err |-> FALSE]
         IN IF parsed.bOK
            THEN Outcome(b1, HistResult("CE_None", dfMin, dfMax, nBuckets, parsed.panHistogram),
                         FALSE, FALSE, FALSE)
            ELSE LET computed == GDALRasterBand_GetHistogram(b1, dfMin, dfMax, nBuckets,
                                                             native)
                     psXMLHist == PamHistogramToXMLTree(dfMin, dfMax, nBuckets,
                                                        Deref(native.panHistogram),
                                                        bIncludeOutOfRange, bApproxOK,
                                                        bMallocOK)
                 IN IF native.eErr # "CE_None"
                    THEN [computed EXCEPT !.err = parsed.err]
                    ELSE IF IsNull(psXMLHist)
                    THEN [computed EXCEPT !.err = parsed.err]
                    ELSE LET b2 == b1
                             psChild == IF IsNull(b2.psPam.psSavedHistograms)
                                        THEN <<>>
                                        ELSE Deref(b2.psPam.psSavedHistograms)
                         IN [computed EXCEPT
                                !.err = parsed.err,
                                !.b = [b2 EXCEPT !.psPam.psSavedHistograms =
                                                     Ptr(Append(psChild, Deref(psXMLHist)))]]

GetHistogram(b, dfMin, dfMax, nBuckets, bIncludeOutOfRange, bApproxOK, native, bAllocOK, bCallocOK, bMallocOK) ==
    LET \* b1: after PamInitialize(); parsed: what PamParseHistogram() gave for
        \* the node found; computed: the outcome of GDALRasterBand; b2: marked
        Saved(computed, parsed, b2, psXMLHist, psChild) ==
            [computed EXCEPT
                !.err = parsed.err,
                !.b = [b2 EXCEPT !.psPam.psSavedHistograms =
                                     Ptr(Append(psChild, Deref(psXMLHist)))]]
        Marked(computed, parsed, b2, psXMLHist) ==
            Saved(computed, parsed, b2, psXMLHist,
                  IF IsNull(b2.psPam.psSavedHistograms)
                  THEN <<>>
                  ELSE Deref(b2.psPam.psSavedHistograms))
        Computed(b1, parsed, computed, psXMLHist) ==
            IF native.eErr # "CE_None"
            THEN [computed EXCEPT !.err = parsed.err]
            ELSE IF IsNull(psXMLHist)
            THEN [computed EXCEPT !.err = parsed.err]
            ELSE Marked(computed, parsed, MarkPamDirty(b1), psXMLHist)
        Parsed(b1, parsed) ==
            IF parsed.bOK
            THEN Outcome(b1, HistResult("CE_None", dfMin, dfMax, nBuckets, parsed.panHistogram),
                         FALSE, FALSE, FALSE)
            ELSE Computed(b1, parsed,
                          GDALRasterBand_GetHistogram(b1, dfMin, dfMax, nBuckets, native),
                          PamHistogramToXMLTree(dfMin, dfMax, nBuckets,
                                                Deref(native.panHistogram),
                                                bIncludeOutOfRange, bApproxOK, bMallocOK))
        Searched(b1, psHistItem) ==
            Parsed(b1, IF psHistItem # 0
                       THEN PamParseHistogram(Deref(b1.psPam.psSavedHistograms)[psHistItem],
                                              bCallocOK)
                       ELSE [bOK |-> FALSE, err |-> FALSE])
        Initialized(b1) ==
            IF ~b1.psPam.alloc
            THEN GDALRasterBand_GetHistogram(b1, dfMin, dfMax, nBuckets, native)
            ELSE Searched(b1, PamFindMatchingHistogram(b1.psPam.psSavedHistograms, dfMin,
                                                       dfMax, nBuckets, bIncludeOutOfRange,
                                                       bApproxOK))
    IN Initialized(PamInitialize(b, bAllocOK))

\* the first child of the list that is a HistItem element, 0 if there is none
FirstHistItem(psChild) ==
    LET scan[i \in 1..(Len(psChild) + 1)] ==
            IF i > Len(psChild)
            THEN 0
            ELSE IF \/ psChild[i].eType # "CXT_Element"
                    \/ ~EQUAL(psChild[i].pszValue, "HistItem")
            THEN scan[i + 1]
            ELSE i
    IN scan[1]

\* GetDefaultHistogram() that falls back on GDALRasterBand when the decoding
\* fails
GetDefaultHistogram_Fallback(b, native, bCallocOK) ==
    LET Parsed(parsed) ==
            IF parsed.bOK
            THEN Outcome(b, HistResult("CE_None", parsed.dfMin, parsed.dfMax,
                                       parsed.nBuckets, parsed.panHistogram),
                         FALSE, parsed.err, FALSE)
            ELSE Outcome(b, native, FALSE, parsed.err, TRUE)
        Found(psXMLHist) ==
            IF psXMLHist # 0
            THEN Parsed(PamParseHistogram(Deref(b.psPam.psSavedHistograms)[psXMLHist],
                                          bCallocOK))
            ELSE Outcome(b, native, FALSE, FALSE, TRUE)
    IN Found(IF b.psPam.alloc /\ ~IsNull(b.psPam.psSavedHistograms)
             THEN FirstHistItem(Deref(b.psPam.psSavedHistograms))
             ELSE 0)

\* native: the outcome of GDALRasterBand::GetDefaultHistogram()
GetDefaultHistogram(b, native, bCallocOK) ==
    LET Parsed(parsed) ==
            Outcome(b, HistResult(IF parsed.bOK THEN "CE_None" ELSE "CE_Failure",
                                  parsed.dfMin, parsed.dfMax, parsed.nBuckets,
                                  parsed.panHistogram),
                    FALSE, parsed.err, FALSE)
        Found(psXMLHist) ==
            IF psXMLHist # 0
            THEN Parsed(PamParseHistogram(Deref(b.psPam.psSavedHistograms)[psXMLHist],
                                          bCallocOK))
            ELSE Outcome(b, native, FALSE, FALSE, TRUE)
    IN Found(IF b.psPam.alloc /\ ~IsNull(b.psPam.psSavedHistograms)
             THEN FirstHistItem(Deref(b.psPam.psSavedHistograms))
             ELSE 0)

(***************************************************************************)
(* The PAMRasterBand element.  The tree is a record of its attribute       *)
(* (band) and of its children by name, each a null pointer or a pointer to *)
(* the text or the children of the child; le_hex_equiv is the attribute of *)
(* the NoDataValue child.  Description, UnitType and the names of the      *)
(* categories are texts the code copies, kept as strings.                  *)
(***************************************************************************)
\* the children of the element, without its attribute band
ChildNames ==
    { "Description", "NoDataValue", "UnitType", "Offset", "Scale", "ColorInterp",
      "CategoryNames", "ColorTable", "Minimum", "Maximum", "Mean", "StandardDeviation",
      "Histograms", "GDALRasterAttributeTable", "Metadata" }

\* CPLCreateXMLNode(nullptr, CXT_Element, "PAMRasterBand")
EmptyTree == [name \in ChildNames \cup {"band", "le_hex_equiv"} |-> NULL]

\* GDALGetColorInterpretationName()
GDALGetColorInterpretationName(eInterp) ==
    CASE eInterp = "GCI_Undefined" -> "Undefined"
      [] eInterp = "GCI_GrayIndex" -> "Gray"
      [] eInterp = "GCI_PaletteIndex" -> "Palette"

\* GDALGetColorInterpretationByName(): GCI_Undefined for a name of no
\* interpretation
GDALGetColorInterpretationByName(pszName) ==
    CASE pszName = "Gray" -> "GCI_GrayIndex"
      [] pszName = "Palette" -> "GCI_PaletteIndex"
      [] OTHER -> "GCI_Undefined"

\* CPLCreateXMLElementAndValue(nullptr, "Category", name)
CategoryElement(pszName) ==
    [ eType |-> "CXT_Element", pszValue |-> "Category",
      psChild |-> Ptr([eType |-> "CXT_Text", pszValue |-> pszName]) ]

\* the Entry element of a colour
EntryElement(sEntry) ==
    [ eType |-> "CXT_Element", pszValue |-> "Entry",
      c1 |-> Ptr(FormatInt(sEntry.c1)), c2 |-> Ptr(FormatInt(sEntry.c2)),
      c3 |-> Ptr(FormatInt(sEntry.c3)), c4 |-> Ptr(FormatInt(sEntry.c4)) ]

\* GDALRasterAttributeTable::Serialize(): nothing for a table without rows
\* and columns
Serialize(poRAT) ==
    IF Deref(poRAT).nRows = 0 /\ Deref(poRAT).nCols = 0 THEN NULL ELSE Ptr(Deref(poRAT))

\* the text of the NoDataValue child of a double
NoDataText(dfNoDataValue) ==
    IF CPLIsNan(dfNoDataValue) THEN <<"n", "a", "n">> ELSE FormatE14(dfNoDataValue)

\* what oFmt holds when the hex encoding is decided: the text of the nodata
\* value or, for NaN, what was formatted before (the band number, if any)
NoDataFmt(b) ==
    IF ~CPLIsNan(b.psPam.dfNoDataValue) THEN FormatE14(b.psPam.dfNoDataValue)
    ELSE IF b.nBand > 0 THEN FormatInt(b.nBand)
    ELSE <<>>

\* SerializeToXML() that encodes every nodata value in hex
HexEncoded_Always(b) == TRUE

\* "Hex encode real floating point values."
HexEncoded(b) ==
    \/ DblNE(b.psPam.dfNoDataValue, floor(b.psPam.dfNoDataValue))
    \/ DblNE(b.psPam.dfNoDataValue, CPLAtof(NoDataFmt(b)))

\* the tree SerializeToXML() builds for a band with a record
BuildTree(b) ==
    LET p == b.psPam IN
    [ band |-> IF b.nBand > 0 THEN Ptr(FormatInt(b.nBand)) ELSE NULL,
      Description |-> IF b.sDescription # "" THEN Ptr(b.sDescription) ELSE NULL,
      NoDataValue |->
          IF p.bNoDataValueSet THEN Ptr(NoDataText(p.dfNoDataValue))
          ELSE IF p.bNoDataValueSetAsInt64 THEN Ptr(FormatInt(p.nNoDataValueInt64))
          ELSE IF p.bNoDataValueSetAsUInt64 THEN Ptr(FormatInt(p.nNoDataValueUInt64))
          ELSE NULL,
      le_hex_equiv |->
          IF p.bNoDataValueSet /\ HexEncoded(b)
          THEN Ptr(LittleEndianHex(p.dfNoDataValue))
          ELSE NULL,
      UnitType |-> IF ~IsNull(p.pszUnitType) THEN Ptr(Deref(p.pszUnitType)) ELSE NULL,
      Offset |-> IF DblNE(p.dfOffset, 0) THEN Ptr(FormatG16(p.dfOffset)) ELSE NULL,
      Scale |-> IF DblNE(p.dfScale, 1) THEN Ptr(FormatG16(p.dfScale)) ELSE NULL,
      ColorInterp |->
          IF p.eColorInterp # "GCI_Undefined"
          THEN Ptr(GDALGetColorInterpretationName(p.eColorInterp))
          ELSE NULL,
      CategoryNames |->
          IF ~IsNull(p.papszCategoryNames)
          THEN Ptr([i \in 1..Len(Deref(p.papszCategoryNames)) |->
                       CategoryElement(Deref(p.papszCategoryNames)[i])])
          ELSE NULL,
      ColorTable |->
          IF ~IsNull(p.poColorTable)
          THEN Ptr([i \in 1..Len(Deref(p.poColorTable)) |->
                       EntryElement(Deref(p.poColorTable)[i])])
          ELSE NULL,
      Minimum |-> IF p.bHaveMinMax THEN Ptr(FormatG16(p.dfMin)) ELSE NULL,
      Maximum |-> IF p.bHaveMinMax THEN Ptr(FormatG16(p.dfMax)) ELSE NULL,
      Mean |-> IF p.bHaveStats THEN Ptr(FormatG16(p.dfMean)) ELSE NULL,
      StandardDeviation |-> IF p.bHaveStats THEN Ptr(FormatG16(p.dfStdDev)) ELSE NULL,
      Histograms |-> p.psSavedHistograms,
      GDALRasterAttributeTable |->
          IF ~IsNull(p.poDefaultRAT) THEN Serialize(p.poDefaultRAT) ELSE NULL,
      Metadata |-> b.oMDMD ]

\* the number of nodes directly below the element: its attribute and its
\* children
CountChildren(psTree) ==
    Cardinality({name \in ChildNames \cup {"band"} : ~IsNull(psTree[name])})

\* SerializeToXML() that returns the tree unless it has no child at all
SerializeToXML_AnyChild(b) ==
    LET Built(psTree) == IF CountChildren(psTree) = 0 THEN NULL ELSE Ptr(psTree)
    IN IF ~b.psPam.alloc THEN NULL ELSE Built(BuildTree(b))

\* psTree->psChild == nullptr || psTree->psChild->psNext == nullptr: no tree
\* is returned when it has no or one node below it
SerializeToXML(b) ==
    LET Built(psTree) == IF CountChildren(psTree) <= 1 THEN NULL ELSE Ptr(psTree)
    IN IF ~b.psPam.alloc THEN NULL ELSE Built(BuildTree(b))

\* std::strtoll(): the whole number the text begins with, within the range
strtoll(s) ==
    LET n == atoi(s) IN
    IF n < GDAL_PAM_DEFAULT_NODATA_VALUE_INT64 THEN GDAL_PAM_DEFAULT_NODATA_VALUE_INT64
    ELSE IF n > MaxInt THEN MaxInt
    ELSE n

\* std::strtoull(): the whole number the text begins with, within the range,
\* a negated one modulo the range
strtoull(s) ==
    LET n == atoi(s)
        nRange == GDAL_PAM_DEFAULT_NODATA_VALUE_UINT64 + 1
    IN IF n > GDAL_PAM_DEFAULT_NODATA_VALUE_UINT64 THEN GDAL_PAM_DEFAULT_NODATA_VALUE_UINT64
       ELSE IF n < 0 - GDAL_PAM_DEFAULT_NODATA_VALUE_UINT64 THEN GDAL_PAM_DEFAULT_NODATA_VALUE_UINT64
       ELSE n % nRange

\* the loop of XMLInit() that skips a Category element without a child
RECURSIVE CategoryNamesOf_SkipEmpty(_)
CategoryNamesOf_SkipEmpty(psEntries) ==
    IF psEntries = <<>>
    THEN <<>>
    ELSE LET psEntry == Head(psEntries) IN
         IF \/ psEntry.eType # "CXT_Element"
            \/ psEntry.pszValue # "Category"
            \/ IsNull(psEntry.psChild)
            \/ Deref(psEntry.psChild).eType # "CXT_Text"
         THEN CategoryNamesOf_SkipEmpty(Tail(psEntries))
         ELSE <<Deref(psEntry.psChild).pszValue>> \o CategoryNamesOf_SkipEmpty(Tail(psEntries))

\* the names of the Category elements of the children: those are skipped
\* that are no Category element or whose first child is no text; an element
\* without a child gives the empty name
RECURSIVE CategoryNamesOf(_)
CategoryNamesOf(psEntries) ==
    IF psEntries = <<>>
    THEN <<>>
    ELSE LET psEntry == Head(psEntries) IN
         IF \/ psEntry.eType # "CXT_Element"
            \/ psEntry.pszValue # "Category"
            \/ (~IsNull(psEntry.psChild) /\ Deref(psEntry.psChild).eType # "CXT_Text")
         THEN CategoryNamesOf(Tail(psEntries))
         ELSE <<IF IsNull(psEntry.psChild) THEN "" ELSE Deref(psEntry.psChild).pszValue>>
                  \o CategoryNamesOf(Tail(psEntries))

\* the colours of the Entry elements of the children, in their order
RECURSIVE ColorEntriesOf(_)
ColorEntriesOf(psEntries) ==
    IF psEntries = <<>>
    THEN <<>>
    ELSE LET psEntry == Head(psEntries) IN
         IF ~(psEntry.eType = "CXT_Element" /\ psEntry.pszValue = "Entry")
         THEN ColorEntriesOf(Tail(psEntries))
         ELSE <<[ c1 |-> atoi(CPLGetXMLValue(psEntry, "c1", <<"0">>)),
                  c2 |-> atoi(CPLGetXMLValue(psEntry, "c2", <<"0">>)),
                  c3 |-> atoi(CPLGetXMLValue(psEntry, "c3", <<"0">>)),
                  c4 |-> atoi(CPLGetXMLValue(psEntry, "c4", <<"2", "5", "5">>)) ]>>
                  \o ColorEntriesOf(Tail(psEntries))

\* XMLInit() that looks at the pixel type before le_hex_equiv
XMLInitNoData_TypeFirst(b, psTree, eType, bAllocOK) ==
    IF IsNull(psTree.NoDataValue)
    THEN b
    ELSE IF eType = "GDT_Int64"
    THEN SetNoDataValueAsInt64(b, strtoll(Deref(psTree.NoDataValue)), bAllocOK).b
    ELSE IF eType = "GDT_UInt64"
    THEN SetNoDataValueAsUInt64(b, strtoull(Deref(psTree.NoDataValue)), bAllocOK).b
    ELSE IF ~IsNull(psTree.le_hex_equiv) /\ HexBytes(Deref(psTree.le_hex_equiv)) = 8
    THEN SetNoDataValue(b, DoubleOfHex(Deref(psTree.le_hex_equiv)), bAllocOK).b
    ELSE SetNoDataValue(b, CPLAtof(Deref(psTree.NoDataValue)), bAllocOK).b

\* XMLInit(): the nodata value of the tree
XMLInitNoData(b, psTree, eType, bAllocOK) ==
    IF IsNull(psTree.NoDataValue)
    THEN b
    ELSE IF ~IsNull(psTree.le_hex_equiv)
    THEN IF HexBytes(Deref(psTree.le_hex_equiv)) = 8
         THEN SetNoDataValue(b, DoubleOfHex(Deref(psTree.le_hex_equiv)), bAllocOK).b
         ELSE SetNoDataValue(b, CPLAtof(Deref(psTree.NoDataValue)), bAllocOK).b
    ELSE IF eType = "GDT_Int64"
    THEN SetNoDataValueAsInt64(b, strtoll(Deref(psTree.NoDataValue)), bAllocOK).b
    ELSE IF eType = "GDT_UInt64"
    THEN SetNoDataValueAsUInt64(b, strtoull(Deref(psTree.NoDataValue)), bAllocOK).b
    ELSE SetNoDataValue(b, CPLAtof(Deref(psTree.NoDataValue)), bAllocOK).b

\* XMLInit() that calls SetOffset for an Offset element and SetScale for a
\* Scale element, each alone
XMLInitSetters_PresentOnly(b, psTree, bAllocOK) ==
    LET Scale(c) ==
            IF ~IsNull(psTree.Scale)
            THEN SetScale(c, CPLAtof(Deref(psTree.Scale)), bAllocOK).b
            ELSE c
        OffsetAndScale(c) ==
            Scale(IF ~IsNull(psTree.Offset)
                  THEN SetOffset(c, CPLAtof(Deref(psTree.Offset)), bAllocOK).b
                  ELSE c)
        UnitType(c) ==
            IF ~IsNull(psTree.UnitType)
            THEN SetUnitType(c, psTree.UnitType, bAllocOK).b
            ELSE c
        ColorInterp(c) ==
            IF ~IsNull(psTree.ColorInterp)
            THEN SetColorInterpretation(
                     c, GDALGetColorInterpretationByName(Deref(psTree.ColorInterp)),
                     bAllocOK).b
            ELSE c
        CategoryNames(c) ==
            IF ~IsNull(psTree.CategoryNames)
            THEN SetCategoryNames(c, Ptr(CategoryNamesOf(Deref(psTree.CategoryNames))),
                                  bAllocOK).b
            ELSE c
        ColorTable(c) ==
            IF ~IsNull(psTree.ColorTable)
            THEN SetColorTable(c, Ptr(ColorEntriesOf(Deref(psTree.ColorTable))), bAllocOK).b
            ELSE c
    IN ColorTable(CategoryNames(ColorInterp(UnitType(OffsetAndScale(b)))))

\* XMLInit(): offset and scale, unit type, colour interpretation, category
\* names and colour table of the tree, through the setters
XMLInitSetters(b, psTree, bAllocOK) ==
    LET OffsetAndScale(c) ==
            IF ~IsNull(psTree.Offset) \/ ~IsNull(psTree.Scale)
            THEN SetScale(SetOffset(c, IF ~IsNull(psTree.Offset)
                                       THEN CPLAtof(Deref(psTree.Offset)) ELSE 0,
                                    bAllocOK).b,
                          IF ~IsNull(psTree.Scale) THEN CPLAtof(Deref(psTree.Scale)) ELSE 1,
                          bAllocOK).b
            ELSE c
        UnitType(c) ==
            IF ~IsNull(psTree.UnitType)
            THEN SetUnitType(c, psTree.UnitType, bAllocOK).b
            ELSE c
        ColorInterp(c) ==
            IF ~IsNull(psTree.ColorInterp)
            THEN SetColorInterpretation(
                     c, GDALGetColorInterpretationByName(Deref(psTree.ColorInterp)),
                     bAllocOK).b
            ELSE c
        CategoryNames(c) ==
            IF ~IsNull(psTree.CategoryNames)
            THEN SetCategoryNames(c, Ptr(CategoryNamesOf(Deref(psTree.CategoryNames))),
                                  bAllocOK).b
            ELSE c
        ColorTable(c) ==
            IF ~IsNull(psTree.ColorTable)
            THEN SetColorTable(c, Ptr(ColorEntriesOf(Deref(psTree.ColorTable))), bAllocOK).b
            ELSE c
    IN ColorTable(CategoryNames(ColorInterp(UnitType(OffsetAndScale(b)))))

\* XMLInit(): the parts of the tree that are stored through psPam without a
\* test of it: minimum and maximum, mean and standard deviation, histograms,
\* attribute table
StoredThroughPam(psTree) ==
    \/ ~IsNull(psTree.Minimum) /\ ~IsNull(psTree.Maximum)
    \/ ~IsNull(psTree.Mean) /\ ~IsNull(psTree.StandardDeviation)
    \/ ~IsNull(psTree.Histograms)
    \/ ~IsNull(psTree.GDALRasterAttributeTable)

\* the direct stores of XMLInit() with the histograms of the tree put after
\* those the record holds
XMLInitDirect_Append(p, psTree) ==
    LET MinMax(q) ==
            IF ~IsNull(psTree.Minimum) /\ ~IsNull(psTree.Maximum)
            THEN [q EXCEPT !.bHaveMinMax = TRUE,
                           !.dfMin = CPLAtofM(Deref(psTree.Minimum)),
                           !.dfMax = CPLAtofM(Deref(psTree.Maximum))]
            ELSE q
        Stats(q) ==
            IF ~IsNull(psTree.Mean) /\ ~IsNull(psTree.StandardDeviation)
            THEN [q EXCEPT !.bHaveStats = TRUE,
                           !.dfMean = CPLAtofM(Deref(psTree.Mean)),
                           !.dfStdDev = CPLAtofM(Deref(psTree.StandardDeviation))]
            ELSE q
        SavedHistograms(q) ==
            IF ~IsNull(psTree.Histograms)
            THEN [q EXCEPT !.psSavedHistograms =
                               IF IsNull(@) THEN Ptr(Deref(psTree.Histograms))
                               ELSE Ptr(Deref(@) \o Deref(psTree.Histograms))]
            ELSE q
        DefaultRAT(q) ==
            IF ~IsNull(psTree.GDALRasterAttributeTable)
            THEN [q EXCEPT !.poDefaultRAT = Ptr(Deref(psTree.GDALRasterAttributeTable))]
            ELSE q
    IN DefaultRAT(SavedHistograms(Stats(MinMax(p))))

XMLInitDirect(p, psTree) ==
    LET MinMax(q) ==
            IF ~IsNull(psTree.Minimum) /\ ~IsNull(psTree.Maximum)
            THEN [q EXCEPT !.bHaveMinMax = TRUE,
                           !.dfMin = CPLAtofM(Deref(psTree.Minimum)),
                           !.dfMax = CPLAtofM(Deref(psTree.Maximum))]
            ELSE q
        Stats(q) ==
            IF ~IsNull(psTree.Mean) /\ ~IsNull(psTree.StandardDeviation)
            THEN [q EXCEPT !.bHaveStats = TRUE,
                           !.dfMean = CPLAtofM(Deref(psTree.Mean)),
                           !.dfStdDev = CPLAtofM(Deref(psTree.StandardDeviation))]
            ELSE q
        SavedHistograms(q) ==
            IF ~IsNull(psTree.Histograms)
            THEN [q EXCEPT !.psSavedHistograms = Ptr(Deref(psTree.Histograms))]
            ELSE q
        DefaultRAT(q) ==
            IF ~IsNull(psTree.GDALRasterAttributeTable)
            THEN [q EXCEPT !.poDefaultRAT = Ptr(Deref(psTree.GDALRasterAttributeTable))]
            ELSE q
    IN DefaultRAT(SavedHistograms(Stats(MinMax(p))))

\* what a build does with an access through the null pointer psPam: the
\* process is stopped by the signal, or the access has no effect
NullAccessOutcomes == {"SIGSEGV", "CE_None"}

\* eType: the pixel type of the band; onNullAccess: what the access through
\* a null psPam does
XMLInit(b, psTree, eType, bAllocOK, onNullAccess) ==
    LET \* b1: after PamInitialize(); b3: after the calls of the setters
        Direct(b3) ==
            IF ~b3.psPam.alloc
            THEN IF StoredThroughPam(psTree)
                 THEN Outcome(b3, onNullAccess, FALSE, FALSE, FALSE)
                 ELSE Outcome(b3, "CE_None", FALSE, FALSE, FALSE)
            ELSE Outcome([b3 EXCEPT !.psPam = XMLInitDirect(@, psTree)],
                         "CE_None", FALSE, FALSE, FALSE)
        MetadataAndDescription(b1) ==
            [b1 EXCEPT !.oMDMD = IF IsNull(psTree.Metadata) THEN @ ELSE psTree.Metadata,
                       !.sDescription = IF IsNull(psTree.Description)
                                        THEN "" ELSE Deref(psTree.Description)]
    IN Direct(XMLInitSetters(
                  XMLInitNoData(MetadataAndDescription(PamInitialize(b, bAllocOK)),
                                psTree, eType, bAllocOK),
                  psTree, bAllocOK))

\* GDALPamRasterBand::SetMetadata(): GDALRasterBand::SetMetadata() stores the
\* list, or none for a null pointer, and raises GMO_MD_DIRTY
SetMetadata(b, papszMetadata, bAllocOK) ==
    LET b1 == MarkPamDirty(PamInitialize(b, bAllocOK))
    IN Outcome([b1 EXCEPT !.oMDMD = papszMetadata, !.nFlags = @ \cup {"GMO_MD_DIRTY"}],
               "CE_None", FALSE, FALSE, TRUE)

(***************************************************************************)
(* CloneInfo().  poSrcBand, any GDALRasterBand, is what its getters give:  *)
(* GetMetadata(), GetDescription(), GetRasterDataType(), the nodata getter *)
(* of its pixel type with *pbSuccess (NoData), GetCategoryNames(),         *)
(* GetOffset() and GetScale() with *pbSuccess, GetUnitType(),              *)
(* GetColorInterpretation(), GetColorTable(), GetDefaultRAT().             *)
(* nCloneFlags is the set of the GCIF_ flags raised.                       *)
(***************************************************************************)
\* CSLCount(): the number of strings of a list, 0 for nullptr
CSLCount(papszStrList) == IF IsNull(papszStrList) THEN 0 ELSE Len(Deref(papszStrList))

\* GDALMajorObject::GetMetadata()
GetMetadata(b) == b.oMDMD

\* CloneInfo() up to "Restore MO flags": the band with what it has taken
\* from poSrcBand, GMO_IGNORE_UNIMPLEMENTED raised
CloneInfoCopy(b, poSrcBand, nCloneFlags, bAllocOK) ==
    LET bOnlyIfMissing == "GCIF_ONLY_IF_MISSING" \in nCloneFlags
        nSavedMOFlags == b.nFlags
        Metadata(c) ==
            IF /\ "GCIF_BAND_METADATA" \in nCloneFlags
               /\ ~IsNull(poSrcBand.papszMetadata)
               /\ \/ ~bOnlyIfMissing
                  \/ CSLCount(GetMetadata(c)) # CSLCount(poSrcBand.papszMetadata)
            THEN SetMetadata(c, poSrcBand.papszMetadata, bAllocOK).b
            ELSE c
        Description(c) ==
            IF /\ "GCIF_BAND_DESCRIPTION" \in nCloneFlags
               /\ poSrcBand.sDescription # ""
               /\ (~bOnlyIfMissing \/ GetDescription(c) = "")
            THEN SetDescription(c, poSrcBand.sDescription, bAllocOK).b
            ELSE c
        NoDataAsInt64(c) ==
            IF \/ ~bOnlyIfMissing
               \/ ~GetNoDataValueAsInt64(c).ok
               \/ GetNoDataValueAsInt64(c).ret # poSrcBand.NoData.ret
            THEN SetNoDataValueAsInt64(c, poSrcBand.NoData.ret, bAllocOK).b
            ELSE c
        NoDataAsUInt64(c) ==
            IF \/ ~bOnlyIfMissing
               \/ ~GetNoDataValueAsUInt64(c).ok
               \/ GetNoDataValueAsUInt64(c).ret # poSrcBand.NoData.ret
            THEN SetNoDataValueAsUInt64(c, poSrcBand.NoData.ret, bAllocOK).b
            ELSE c
        NoDataAsDouble(c) ==
            IF \/ ~bOnlyIfMissing
               \/ ~GetNoDataValue(c).ok
               \/ ~(\/ CPLIsNan(GetNoDataValue(c).ret) /\ CPLIsNan(poSrcBand.NoData.ret)
                    \/ DblEQ(GetNoDataValue(c).ret, poSrcBand.NoData.ret))
            THEN SetNoDataValue(c, poSrcBand.NoData.ret, bAllocOK).b
            ELSE c
        NoData(c) ==
            IF "GCIF_NODATA" \in nCloneFlags /\ poSrcBand.NoData.ok
            THEN CASE poSrcBand.eDataType = "GDT_Int64" -> NoDataAsInt64(c)
                   [] poSrcBand.eDataType = "GDT_UInt64" -> NoDataAsUInt64(c)
                   [] OTHER -> NoDataAsDouble(c)
            ELSE c
        CategoryNames(c) ==
            IF /\ "GCIF_CATEGORYNAMES" \in nCloneFlags
               /\ ~IsNull(poSrcBand.papszCategoryNames)
               /\ (~bOnlyIfMissing \/ IsNull(GetCategoryNames(c).ret))
            THEN SetCategoryNames(c, poSrcBand.papszCategoryNames, bAllocOK).b
            ELSE c
        Offset(c) ==
            IF /\ "GCIF_SCALEOFFSET" \in nCloneFlags
               /\ poSrcBand.Offset.ok
               /\ (~bOnlyIfMissing \/ DblNE(GetOffset(c).ret, poSrcBand.Offset.ret))
            THEN SetOffset(c, poSrcBand.Offset.ret, bAllocOK).b
            ELSE c
        Scale(c) ==
            IF /\ "GCIF_SCALEOFFSET" \in nCloneFlags
               /\ poSrcBand.Scale.ok
               /\ (~bOnlyIfMissing \/ DblNE(GetScale(c).ret, poSrcBand.Scale.ret))
            THEN SetScale(c, poSrcBand.Scale.ret, bAllocOK).b
            ELSE c
        UnitType(c) ==
            IF /\ "GCIF_UNITTYPE" \in nCloneFlags
               /\ poSrcBand.pszUnitType # ""
               /\ (~bOnlyIfMissing \/ ~EQUAL(GetUnitType(c).ret, poSrcBand.pszUnitType))
            THEN SetUnitType(c, Ptr(poSrcBand.pszUnitType), bAllocOK).b
            ELSE c
        ColorInterp(c) ==
            IF /\ "GCIF_COLORINTERP" \in nCloneFlags
               /\ poSrcBand.eColorInterp # "GCI_Undefined"
               /\ \/ ~bOnlyIfMissing
                  \/ poSrcBand.eColorInterp # GetColorInterpretation(c).ret
            THEN SetColorInterpretation(c, poSrcBand.eColorInterp, bAllocOK).b
            ELSE c
        ColorTable(c) ==
            IF /\ "GCIF_COLORTABLE" \in nCloneFlags
               /\ ~IsNull(poSrcBand.poColorTable)
               /\ (~bOnlyIfMissing \/ IsNull(GetColorTable(c).ret))
            THEN SetColorTable(c, poSrcBand.poColorTable, bAllocOK).b
            ELSE c
        \* g: what GetDefaultRAT() gave, with the band after its PamInitialize()
        MissingRAT(g) ==
            IF IsNull(g.ret) THEN SetDefaultRAT(g.b, poSrcBand.poRAT, bAllocOK).b ELSE g.b
        RAT(c) ==
            IF /\ "GCIF_RAT" \in nCloneFlags
               /\ ~IsNull(poSrcBand.poRAT)
               /\ (Deref(poSrcBand.poRAT).nRows # 0 \/ Deref(poSrcBand.poRAT).nCols # 0)
            THEN IF ~bOnlyIfMissing
                 THEN SetDefaultRAT(c, poSrcBand.poRAT, bAllocOK).b
                 ELSE MissingRAT(GetDefaultRAT(c, bAllocOK))
            ELSE c
        Suppressed(c) == [c EXCEPT !.nFlags = nSavedMOFlags \cup {"GMO_IGNORE_UNIMPLEMENTED"}]
    IN RAT(ColorTable(ColorInterp(UnitType(Scale(Offset(CategoryNames(
           NoData(Description(Metadata(Suppressed(PamInitialize(b, bAllocOK))))))))))))

\* whether a nodata getter of the band reports an error to CloneInfo(): the
\* getter of the 64 bit type of poSrcBand, called for GCIF_ONLY_IF_MISSING on
\* a band of another pixel type
CloneInfoError(b, poSrcBand, nCloneFlags) ==
    /\ {"GCIF_NODATA", "GCIF_ONLY_IF_MISSING"} \subseteq nCloneFlags
    /\ poSrcBand.NoData.ok
    /\ CASE poSrcBand.eDataType = "GDT_Int64" -> GetNoDataValueAsInt64(b).err
          [] poSrcBand.eDataType = "GDT_UInt64" -> GetNoDataValueAsUInt64(b).err
          [] OTHER -> FALSE

\* CloneInfo() without "Restore MO flags"
CloneInfo_NoRestore(b, poSrcBand, nCloneFlags, bAllocOK) ==
    Outcome(CloneInfoCopy(b, poSrcBand, nCloneFlags, bAllocOK), "CE_None", FALSE,
            CloneInfoError(PamInitialize(b, bAllocOK), poSrcBand, nCloneFlags), FALSE)

\* CloneInfo() that takes GCIF_ONLY_IF_MISSING as raised
CloneInfo_OnlyIfMissing(b, poSrcBand, nCloneFlags, bAllocOK) ==
    Outcome([CloneInfoCopy(b, poSrcBand, nCloneFlags \cup {"GCIF_ONLY_IF_MISSING"}, bAllocOK)
                 EXCEPT !.nFlags = b.nFlags],
            "CE_None", FALSE,
            CloneInfoError(PamInitialize(b, bAllocOK), poSrcBand, nCloneFlags), FALSE)

\* CloneInfo() that takes GCIF_ONLY_IF_MISSING as not raised
CloneInfo_Always(b, poSrcBand, nCloneFlags, bAllocOK) ==
    Outcome([CloneInfoCopy(b, poSrcBand, nCloneFlags \ {"GCIF_ONLY_IF_MISSING"}, bAllocOK)
                 EXCEPT !.nFlags = b.nFlags],
            "CE_None", FALSE,
            CloneInfoError(PamInitialize(b, bAllocOK), poSrcBand, nCloneFlags), FALSE)

\* CloneInfo() that takes GCIF_UNITTYPE as raised
CloneInfo_UnitTypeAlways(b, poSrcBand, nCloneFlags, bAllocOK) ==
    Outcome([CloneInfoCopy(b, poSrcBand, nCloneFlags \cup {"GCIF_UNITTYPE"}, bAllocOK)
                 EXCEPT !.nFlags = b.nFlags],
            "CE_None", FALSE,
            CloneInfoError(PamInitialize(b, bAllocOK), poSrcBand, nCloneFlags), FALSE)

\* SetMOFlags(nSavedMOFlags); return CE_None
CloneInfo(b, poSrcBand, nCloneFlags, bAllocOK) ==
    Outcome([CloneInfoCopy(b, poSrcBand, nCloneFlags, bAllocOK) EXCEPT !.nFlags = b.nFlags],
            "CE_None", FALSE,
            CloneInfoError(PamInitialize(b, bAllocOK), poSrcBand, nCloneFlags), FALSE)

(***************************************************************************)
(* The state machine.                                                      *)
(***************************************************************************)
\* Objects by address.  A cell is unused, or holds a live object, or is what
\* is left of an object that was deleted; val is what the object holds,
\* mine whether the caller of the band made it.
MaxAddr == 3
Addrs == 1..MaxAddr
Unused == [state |-> "unused", kind |-> "", val |-> NULL, mine |-> FALSE]
NoHeap == [a \in Addrs |-> Unused]

\* what an object of a kind can hold: strings, colour entries, and of an
\* attribute table the numbers of its rows and columns
ObjectValues(kind) ==
    CASE kind = "char **" -> {<<>>, <<"water">>}
      [] kind = "GDALColorTable" -> {<<>>, <<[c1 |-> 0, c2 |-> 0, c3 |-> 0, c4 |-> 255]>>}
      [] kind = "GDALRasterAttributeTable" ->
             {<<0, 0>>, <<MaxRat, 0>>}

ObjectKinds == {"char **", "GDALColorTable", "GDALRasterAttributeTable"}

HasRoom(h) == \E a \in Addrs : h[a].state = "unused"

\* the address operator new and CPLMalloc() give: the lowest unused one
Fresh(h) == CHOOSE a \in Addrs : h[a].state = "unused" /\ \A c \in 1..(a - 1) : h[c].state # "unused"

\* a new object of a kind holding v
New(h, kind, v, mine) ==
    [heap  |-> [h EXCEPT ![Fresh(h)] = [state |-> "live", kind |-> kind, val |-> v, mine |-> mine]],
     ret   |-> Ptr(Fresh(h)),
     crash |-> FALSE]

\* delete and CSLDestroy(): nothing for nullptr
Release(h, p) == IF IsNull(p) THEN h ELSE [h EXCEPT ![Deref(p)].state = "freed"]

\* GDALColorTable::Clone() and GDALRasterAttributeTable::Clone() of the
\* object at p: a new object that holds what the object holds.  Of a deleted
\* object the behaviour is undefined: the process ends, or the new object
\* holds anything.
CloneAt(h, p) ==
    IF h[Deref(p)].state = "live"
    THEN {New(h, h[Deref(p)].kind, h[Deref(p)].val, FALSE)}
    ELSE {[heap |-> h, ret |-> NULL, crash |-> TRUE]}
             \cup {New(h, h[Deref(p)].kind, v, FALSE) : v \in ObjectValues(h[Deref(p)].kind)}

\* CSLDuplicate() of the list at p: nullptr for nullptr and for a list
\* without entries, a new list with the same strings otherwise
CSLDuplicateAt(h, p) ==
    IF IsNull(p)
    THEN {[heap |-> h, ret |-> NULL, crash |-> FALSE]}
    ELSE {IF d.crash \/ Len(d.heap[Deref(d.ret)].val) # 0
          THEN d
          ELSE [heap |-> h, ret |-> NULL, crash |-> FALSE] : d \in CloneAt(h, p)}

\* an outcome with the objects it leaves
WithHeap(o, h) ==
    [b |-> o.b, ret |-> o.ret, ok |-> o.ok, err |-> o.err, delegated |-> o.delegated, heap |-> h]

\* the process has ended in the call
Crashed(b, h) == WithHeap(Outcome(b, "SIGSEGV", FALSE, TRUE, FALSE), h)

\* SetCategoryNames() with the addresses followed: the outcomes of the call
SetCategoryNamesAt(h, b, papszNewNames, bAllocOK) ==
    LET Stored(b1, d) ==
            IF d.crash
            THEN Crashed(b1, d.heap)
            ELSE WithHeap(Outcome(MarkPamDirty([b1 EXCEPT !.psPam.papszCategoryNames = d.ret]),
                                  "CE_None", FALSE, FALSE, FALSE),
                          d.heap)
        Destroyed(b1) ==
            {Stored(b1, d) : d \in CSLDuplicateAt(Release(h, b1.psPam.papszCategoryNames),
                                                  papszNewNames)}
        Initialized(b1) ==
            IF ~b1.psPam.alloc THEN {WithHeap(GDALRasterBand_Set(b1), h)} ELSE Destroyed(b1)
    IN Initialized(PamInitialize(b, bAllocOK))

\* SetColorTable() that keeps the pointer it is given
SetColorTableAt_Shallow(h, b, poTableIn, bAllocOK) ==
    LET Initialized(b1) ==
            IF ~b1.psPam.alloc
            THEN {WithHeap(GDALRasterBand_Set(b1), h)}
            ELSE {WithHeap(Outcome(MarkPamDirty(
                                       IF IsNull(poTableIn)
                                       THEN [b1 EXCEPT !.psPam.poColorTable = NULL]
                                       ELSE [b1 EXCEPT !.psPam.poColorTable = poTableIn,
                                                       !.psPam.eColorInterp = "GCI_PaletteIndex"]),
                                   "CE_None", FALSE, FALSE, FALSE),
                           IF b1.psPam.poColorTable = poTableIn
                           THEN h
                           ELSE Release(h, b1.psPam.poColorTable))}
    IN Initialized(PamInitialize(b, bAllocOK))

\* SetColorTable() with the addresses followed: the outcomes of the call
SetColorTableAt(h, b, poTableIn, bAllocOK) ==
    LET Stored(b1, d) ==
            IF d.crash
            THEN Crashed(b1, d.heap)
            ELSE WithHeap(Outcome(MarkPamDirty([b1 EXCEPT !.psPam.poColorTable = d.ret,
                                                          !.psPam.eColorInterp = "GCI_PaletteIndex"]),
                                  "CE_None", FALSE, FALSE, FALSE),
                          d.heap)
        Deleted(b1, h1) ==
            IF IsNull(poTableIn)
            THEN {WithHeap(Outcome(MarkPamDirty([b1 EXCEPT !.psPam.poColorTable = NULL]),
                                   "CE_None", FALSE, FALSE, FALSE),
                           h1)}
            ELSE {Stored(b1, d) : d \in CloneAt(h1, poTableIn)}
        Initialized(b1) ==
            IF ~b1.psPam.alloc
            THEN {WithHeap(GDALRasterBand_Set(b1), h)}
            ELSE Deleted(b1, Release(h, b1.psPam.poColorTable))
    IN Initialized(PamInitialize(b, bAllocOK))

\* SetDefaultRAT() with the addresses followed: the outcomes of the call
SetDefaultRATAt(h, b, poRAT, bAllocOK) ==
    LET Stored(b1, d) ==
            IF d.crash
            THEN Crashed(b1, d.heap)
            ELSE WithHeap(Outcome([b1 EXCEPT !.psPam.poDefaultRAT = d.ret],
                                  "CE_None", FALSE, FALSE, FALSE),
                          d.heap)
        Deleted(b1, h1) ==
            IF IsNull(poRAT)
            THEN {WithHeap(Outcome([b1 EXCEPT !.psPam.poDefaultRAT = NULL],
                                   "CE_None", FALSE, FALSE, FALSE),
                           h1)}
            ELSE {Stored(b1, d) : d \in CloneAt(h1, poRAT)}
        Initialized(b1) ==
            IF ~b1.psPam.alloc
            THEN {WithHeap(GDALRasterBand_Set(b1), h)}
            ELSE Deleted(MarkPamDirty(b1), Release(h, b1.psPam.poDefaultRAT))
    IN Initialized(PamInitialize(b, bAllocOK))

\* the record of a call: what was called with which argument, what it gave
\* back, whether it marked the store dirty, whether it changed the record or
\* the description, whether it found a record, linked to a parent store, and
\* the histogram list it found
Called(op, arg, o) ==
    [ op        |-> op,
      arg       |-> arg,
      ret       |-> o.ret,
      ok        |-> o.ok,
      err       |-> o.err,
      delegated |-> o.delegated,
      marked    |-> o.b.marked,
      changed   |-> (o.b.psPam # psPam \/ o.b.sDescription # sDescription),
      hadPam    |-> psPam.alloc,
      histBefore |-> psPam.psSavedHistograms,
      wasLinked |-> (psPam.alloc /\ psPam.poParentDS) ]

\* nothing was given to any setter on this record
NoneSet ==
    [ SetOffset              |-> NULL,
      SetScale               |-> NULL,
      SetUnitType            |-> NULL,
      SetColorInterpretation |-> NULL,
      SetCategoryNames       |-> NULL,
      SetColorTable          |-> NULL,
      SetDefaultRAT          |-> NULL,
      bTableSince            |-> FALSE ]

\* The history after a call: empty when the band is left without a record or
\* with a new one (PamInitialize() replaces an unlinked record by a linked
\* one), and with the argument of a setter that stored into the record.
\* bTableSince: a colour table was given after the last colour interpretation.
Remember(op, arg, o) ==
    IF ~o.b.psPam.alloc
    THEN NoneSet
    ELSE LET kept == IF psPam.alloc /\ psPam.poParentDS = o.b.psPam.poParentDS
                     THEN lastSet
                     ELSE NoneSet
         IN IF op \in DOMAIN NoneSet
            THEN [kept EXCEPT ![op] = Ptr(arg),
                              !.bTableSince =
                                  \/ op = "SetColorTable" /\ ~IsNull(arg)
                                  \/ op # "SetColorInterpretation" /\ @]
            ELSE kept

\* what a call leaves of the band and of the history
Store(op, arg, o) ==
    /\ lastSet' = Remember(op, arg, o)
    /\ psPam' = o.b.psPam
    /\ dsPam' = o.b.dsPam
    /\ bDirty' = o.b.bDirty
    /\ sDescription' = o.b.sDescription
    /\ oMDMD' = o.b.oMDMD
    /\ nFlags' = o.b.nFlags
    /\ lastOp' = Called(op, arg, o)
    /\ UNCHANGED <<eDataType, poDS, bPamEnabled, nBand>>

\* a call of a method modelled by the values its pointers lead to
Apply(op, arg, o) == Store(op, arg, o) /\ UNCHANGED heap

Init ==
    /\ eDataType \in DataTypes
    /\ poDS \in DatasetKinds
    /\ bPamEnabled \in (IF poDS = "GDALPamDataset" THEN BOOLEAN ELSE {FALSE})
    /\ dsPam = FALSE
    /\ bDirty = FALSE
    /\ psPam = NullPam
    /\ sDescription = ""
    /\ oMDMD = NULL
    /\ nBand = 0
    /\ nFlags = MOFlagsAsConstructed
    /\ heap = NoHeap
    /\ lastOp = Called("new", NULL, Void(Cur))
    /\ lastSet = NoneSet

\* bAllocOK, whether new (std::nothrow) gives a record, is kept as the argument
CallPamInitialize ==
    \E bAllocOK \in BOOLEAN :
        Apply("PamInitialize", bAllocOK, Void(PamInitialize(Cur, bAllocOK)))

CallPamInitializeNoParent ==
    \E bAllocOK \in BOOLEAN :
        Apply("PamInitializeNoParent", bAllocOK, Void(PamInitializeNoParent(Cur, bAllocOK)))

\* the save pass of the dataset (GDALPamDataset::TrySaveXML) clears GPF_DIRTY
TrySaveXML ==
    /\ dsPam
    /\ bDirty
    /\ bDirty' = FALSE
    /\ lastOp' = [Called("TrySaveXML", NULL, Void(Cur)) EXCEPT !.changed = FALSE]
    /\ UNCHANGED <<eDataType, poDS, bPamEnabled, dsPam, psPam, sDescription, oMDMD, nBand, nFlags, heap, lastSet>>

CallSetNoDataValue(S) ==
    \E v \in S, bAllocOK \in BOOLEAN :
        Apply("SetNoDataValue", v, SetNoDataValue(Cur, v, bAllocOK))

CallSetNoDataValueAsInt64(S) ==
    \E v \in S, bAllocOK \in BOOLEAN :
        Apply("SetNoDataValueAsInt64", v, SetNoDataValueAsInt64(Cur, v, bAllocOK))

CallSetNoDataValueAsUInt64(S) ==
    \E v \in S, bAllocOK \in BOOLEAN :
        Apply("SetNoDataValueAsUInt64", v, SetNoDataValueAsUInt64(Cur, v, bAllocOK))

CallDeleteNoDataValue ==
    \E bAllocOK \in BOOLEAN :
        Apply("DeleteNoDataValue", NULL, DeleteNoDataValue(Cur, bAllocOK))

CallGetNoDataValue == Apply("GetNoDataValue", NULL, GetNoDataValue(Cur))

CallGetNoDataValueAsInt64 ==
    Apply("GetNoDataValueAsInt64", NULL, GetNoDataValueAsInt64(Cur))

CallGetNoDataValueAsUInt64 ==
    Apply("GetNoDataValueAsUInt64", NULL, GetNoDataValueAsUInt64(Cur))

CallGetOffset == Apply("GetOffset", NULL, GetOffset(Cur))

CallSetOffset(S) ==
    \E v \in S, bAllocOK \in BOOLEAN :
        Apply("SetOffset", v, SetOffset(Cur, v, bAllocOK))

CallGetScale == Apply("GetScale", NULL, GetScale(Cur))

CallSetScale(S) ==
    \E v \in S, bAllocOK \in BOOLEAN :
        Apply("SetScale", v, SetScale(Cur, v, bAllocOK))

CallGetUnitType == Apply("GetUnitType", NULL, GetUnitType(Cur))

CallSetUnitType(S) ==
    \E v \in S, bAllocOK \in BOOLEAN :
        Apply("SetUnitType", v, SetUnitType(Cur, v, bAllocOK))

CallSetDescription(S) ==
    \E v \in S, bAllocOK \in BOOLEAN :
        Apply("SetDescription", v, SetDescription(Cur, v, bAllocOK))

CallGetCategoryNames == Apply("GetCategoryNames", NULL, GetCategoryNames(Cur))

CallSetCategoryNames(S) ==
    \E v \in S, bAllocOK \in BOOLEAN :
        Apply("SetCategoryNames", v, SetCategoryNames(Cur, v, bAllocOK))

CallGetColorTable == Apply("GetColorTable", NULL, GetColorTable(Cur))

CallSetColorTable(S) ==
    \E v \in S, bAllocOK \in BOOLEAN :
        Apply("SetColorTable", v, SetColorTable(Cur, v, bAllocOK))

CallGetColorInterpretation ==
    Apply("GetColorInterpretation", NULL, GetColorInterpretation(Cur))

CallSetColorInterpretation(S) ==
    \E v \in S, bAllocOK \in BOOLEAN :
        Apply("SetColorInterpretation", v, SetColorInterpretation(Cur, v, bAllocOK))

CallGetDefaultRAT ==
    \E bAllocOK \in BOOLEAN :
        Apply("GetDefaultRAT", NULL, GetDefaultRAT(Cur, bAllocOK))

CallSetDefaultRAT(S) ==
    \E v \in S, bAllocOK \in BOOLEAN :
        Apply("SetDefaultRAT", v, SetDefaultRAT(Cur, v, bAllocOK))

\* h: dfMin, dfMax, nBuckets and the nBuckets counts of panHistogram
CallSetDefaultHistogram(S) ==
    \E h \in S, bAllocOK \in BOOLEAN, bMallocOK \in BOOLEAN :
        Apply("SetDefaultHistogram", h,
              SetDefaultHistogram(Cur, h.dfMin, h.dfMax, h.nBuckets, h.panHistogram,
                                  bAllocOK, bMallocOK))

\* q: the arguments after psSavedHistograms; the node found is the result
CallPamFindMatchingHistogram(S) ==
    \E q \in S :
        Apply("PamFindMatchingHistogram", q,
              Outcome(Cur,
                      PamFindMatchingHistogram(psPam.psSavedHistograms, q.dfMin, q.dfMax,
                                               q.nBuckets, q.bIncludeOutOfRange,
                                               q.bApproxOK),
                      FALSE, FALSE, FALSE))

\* q: the arguments, the outcome of the computation of GDALRasterBand (native)
\* and whether the allocations of the decoding and of the new node succeed
CallGetHistogram(S) ==
    \E q \in S, bAllocOK \in BOOLEAN :
        Apply("GetHistogram", q,
              GetHistogram(Cur, q.dfMin, q.dfMax, q.nBuckets, q.bIncludeOutOfRange,
                           q.bApproxOK, q.native, bAllocOK, q.bCallocOK, q.bMallocOK))

\* q: the outcome of GDALRasterBand::GetDefaultHistogram() and whether the
\* allocation of the decoding succeeds
CallGetDefaultHistogram(S) ==
    \E q \in S :
        Apply("GetDefaultHistogram", q, GetDefaultHistogram(Cur, q.native, q.bCallocOK))

CallSerializeToXML ==
    Apply("SerializeToXML", NULL, Outcome(Cur, SerializeToXML(Cur), FALSE, FALSE, FALSE))

\* q: the tree and what an access through a null psPam does
CallXMLInit(S) ==
    \E q \in S, bAllocOK \in BOOLEAN :
        Apply("XMLInit", q, XMLInit(Cur, q.psTree, eDataType, bAllocOK, q.onNullAccess))

\* The dataset is closed and opened again: the tree SerializeToXML() gave is
\* read by XMLInit() into the band as constructed.  The record and the
\* description that were written are kept as the argument.
Reopen ==
    \E psTree \in {SerializeToXML(Cur)} :
        /\ ~IsNull(psTree)
        /\ Apply("Reopen",
                 [psTree |-> psTree, psPam |-> psPam, sDescription |-> sDescription],
                 XMLInit(Band(NullPam, FALSE, FALSE, "", NULL, nBand, MOFlagsAsConstructed),
                         Deref(psTree), eDataType, TRUE, "CE_None"))

\* q: poSrcBand and nCloneFlags
CallCloneInfo(S) ==
    \E q \in S, bAllocOK \in BOOLEAN :
        Apply("CloneInfo", q, CloneInfo(Cur, q.poSrcBand, q.nCloneFlags, bAllocOK))

CallSetMetadata(S) ==
    \E v \in S, bAllocOK \in BOOLEAN :
        Apply("SetMetadata", v, SetMetadata(Cur, v, bAllocOK))

\* the nodata methods on a band in any state of initialization
NextNoData ==
    \/ CallPamInitialize
    \/ CallPamInitializeNoParent
    \/ TrySaveXML
    \/ CallSetNoDataValue(Doubles)
    \/ CallSetNoDataValueAsInt64(Int64s)
    \/ CallSetNoDataValueAsUInt64(UInt64s)
    \/ CallDeleteNoDataValue
    \/ CallGetNoDataValue
    \/ CallGetNoDataValueAsInt64
    \/ CallGetNoDataValueAsUInt64

SpecNoData == Init /\ [][NextNoData]_vars

\* a band of a pixel type without a nodata accessor of its own
InitByte == Init /\ eDataType = "GDT_Byte"

\* offset, scale, unit type and description
NextScalar ==
    \/ CallPamInitialize
    \/ CallPamInitializeNoParent
    \/ TrySaveXML
    \/ CallSetOffset(Doubles)
    \/ CallSetScale(Doubles)
    \/ CallSetUnitType(UnitArgs)
    \/ CallSetDescription(Descriptions)

SpecScalar == InitByte /\ [][NextScalar]_vars

\* colour interpretation, category names, colour table, attribute table
NextObject ==
    \/ CallPamInitialize
    \/ CallPamInitializeNoParent
    \/ TrySaveXML
    \/ CallSetColorInterpretation(ColorInterps)
    \/ CallSetCategoryNames(NameLists)
    \/ CallSetColorTable(ColorTables)
    \/ CallSetDefaultRAT(RATs)

SpecObject == InitByte /\ [][NextObject]_vars

\* every getter, with the setters of what the getters return
NextGet ==
    \/ CallPamInitialize
    \/ CallPamInitializeNoParent
    \/ CallSetNoDataValue({0})
    \/ CallSetNoDataValueAsInt64({0})
    \/ CallDeleteNoDataValue
    \/ CallSetOffset({0, MaxDouble})
    \/ CallSetScale({0, MaxDouble})
    \/ CallSetUnitType({NULL, Ptr("m")})
    \/ CallSetColorInterpretation({"GCI_GrayIndex"})
    \/ CallSetCategoryNames({Ptr(<<"water">>)})
    \/ CallSetColorTable({NULL, Ptr(<<>>)})
    \/ CallSetDefaultRAT({Ptr([nRows |-> 0, nCols |-> 0])})
    \/ CallGetNoDataValue
    \/ CallGetOffset
    \/ CallGetScale
    \/ CallGetUnitType
    \/ CallGetColorInterpretation
    \/ CallGetCategoryNames
    \/ CallGetColorTable
    \/ CallGetDefaultRAT

\* a band of a GDALPamDataset, or one without a dataset
InitGet ==
    /\ Init
    /\ eDataType = "GDT_Int64"
    /\ poDS \in {"nullptr", "GDALPamDataset"}
    /\ bPamEnabled = (poDS = "GDALPamDataset")

SpecGet == InitGet /\ [][NextGet]_vars

\* histograms to store: of two buckets, or of more than a text can hold
Histograms ==
    { [dfMin |-> 0, dfMax |-> MaxDouble, nBuckets |-> 2, panHistogram |-> <<0, MaxCount>>],
      [dfMin |-> 0, dfMax |-> MaxDouble, nBuckets |-> (INT_MAX - 10) \div 12 + 1,
       panHistogram |-> <<>>] }

\* every mutator
NextSet ==
    \/ CallPamInitializeNoParent
    \/ CallSetNoDataValue({MaxDouble})
    \/ CallSetNoDataValueAsInt64({MaxInt})
    \/ CallSetNoDataValueAsUInt64({MaxInt})
    \/ CallDeleteNoDataValue
    \/ CallSetOffset({MaxDouble})
    \/ CallSetScale({0})
    \/ CallSetUnitType({Ptr("m")})
    \/ CallSetCategoryNames({Ptr(<<"water">>)})
    \/ CallSetColorTable({Ptr(<<>>)})
    \/ CallSetColorInterpretation({"GCI_GrayIndex"})
    \/ CallSetDefaultRAT({Ptr([nRows |-> 0, nCols |-> 0])})
    \/ CallSetDefaultHistogram(Histograms)

SpecSet == InitByte /\ [][NextSet]_vars

\* a HistItem element with the range 0..1 (no HistMin: 0) and two buckets
BaseHistItem == XMLHistItem(NULL, Ptr(<<"1">>), Ptr(<<"2">>), NULL, NULL, NULL)

\* children of a Histograms element as XMLInit() can clone them from any
\* document: HistItem elements that differ from the one above in one field or
\* two, an element of another name, a HistItem that is no element, and the
\* name in lower case
HistNodes ==
    { BaseHistItem,
      [BaseHistItem EXCEPT !.HistMin = Ptr(<<"1">>)],
      [BaseHistItem EXCEPT !.HistMax = NULL],
      [BaseHistItem EXCEPT !.BucketCount = NULL],
      [BaseHistItem EXCEPT !.IncludeOutOfRange = Ptr(<<"1">>)],
      [BaseHistItem EXCEPT !.IncludeOutOfRange = Ptr(<<"2">>)],
      [BaseHistItem EXCEPT !.Approximate = Ptr(<<"1">>)],
      [BaseHistItem EXCEPT !.Approximate = Ptr(<<"0">>)],
      [BaseHistItem EXCEPT !.IncludeOutOfRange = Ptr(<<"2">>), !.Approximate = Ptr(<<"1">>)],
      [BaseHistItem EXCEPT !.pszValue = "Metadata"],
      [BaseHistItem EXCEPT !.eType = "CXT_Text"],
      [BaseHistItem EXCEPT !.pszValue = "histitem"] }

\* what PamFindMatchingHistogram is asked for
MatchQueries ==
    [ dfMin : {0, 1}, dfMax : {1}, nBuckets : {0, 2},
      bIncludeOutOfRange : {0, 1, 2}, bApproxOK : {0, 1} ]

\* a band whose record holds a histogram list cloned from a document
InitMatch ==
    /\ eDataType = "GDT_Byte"
    /\ poDS = "GDALPamDataset"
    /\ bPamEnabled = TRUE
    /\ dsPam = TRUE
    /\ bDirty = FALSE
    /\ psPam \in { [DefaultPam EXCEPT !.poParentDS = TRUE, !.psSavedHistograms = h] :
                      h \in {NULL} \cup {Ptr(l) : l \in SeqsUpTo(HistNodes, MaxHistItems)} }
    /\ sDescription = ""
    /\ oMDMD = NULL
    /\ nBand = 0
    /\ nFlags = MOFlagsAsConstructed
    /\ heap = NoHeap
    /\ lastOp = Called("XMLInit", NULL, Void(Cur))
    /\ lastSet = NoneSet

NextMatch == CallPamFindMatchingHistogram(MatchQueries)

SpecMatch == InitMatch /\ [][NextMatch]_vars

\* more buckets than PamHistogramToXMLTree() writes a text for
TooManyBuckets == (INT_MAX - 10) \div 12 + 1

\* histograms given to SetDefaultHistogram: without buckets, with two buckets
\* and either of two contents, and with too many buckets, as few as are too
\* many or as many as a HistItem of a document can name
DefaultHistograms ==
    { [dfMin |-> 0, dfMax |-> MaxDouble, nBuckets |-> 0, panHistogram |-> <<>>],
      [dfMin |-> 0, dfMax |-> MaxDouble, nBuckets |-> 2, panHistogram |-> <<0, MaxCount>>],
      [dfMin |-> 0, dfMax |-> MaxDouble, nBuckets |-> 2, panHistogram |-> <<MaxCount, 0>>],
      [dfMin |-> 0, dfMax |-> MaxDouble, nBuckets |-> TooManyBuckets, panHistogram |-> <<>>],
      [dfMin |-> 0, dfMax |-> MaxDouble, nBuckets |-> INT_MAX \div 2 + 1, panHistogram |-> <<>>] }

\* the computation of GDALRasterBand fails or gives counts; of the counts of
\* a histogram of too many buckets the model keeps none
NativeHistograms ==
    { [nBuckets |-> 2, native |-> [eErr |-> "CE_Failure", panHistogram |-> NULL]],
      [nBuckets |-> 2, native |-> [eErr |-> "CE_None",
                                   panHistogram |-> Ptr(<<MaxCount, MaxCount>>)]],
      [nBuckets |-> TooManyBuckets,
       native |-> [eErr |-> "CE_None", panHistogram |-> Ptr(<<>>)]] }

\* what GetHistogram is called with
HistogramQueries ==
    { [dfMin |-> 0, dfMax |-> MaxDouble, nBuckets |-> n.nBuckets,
       bIncludeOutOfRange |-> bInc, bApproxOK |-> bApp, native |-> n.native,
       bCallocOK |-> bC, bMallocOK |-> bM] :
          n \in NativeHistograms, bInc \in {0, 1}, bApp \in {0, 1},
          bC \in BOOLEAN, bM \in BOOLEAN }

\* what GetDefaultHistogram is called with: GDALRasterBand::GetDefaultHistogram
\* gives a histogram or, not forced to compute one, a warning
DefaultHistogramQueries ==
    { [native |-> n, bCallocOK |-> bC] :
          n \in { HistResult("CE_None", 0, MaxDouble, 2, Ptr(<<MaxCount, MaxCount>>)),
                  HistResult("CE_Warning", 0, 0, 0, NULL) },
          bC \in BOOLEAN }

\* a HistItem whose HistCounts is shorter than its two buckets need
ShortHistItem ==
    XMLHistItem(Ptr(<<"0">>), Ptr(FormatG16(MaxDouble)), Ptr(<<"2">>), Ptr(<<"1">>),
                Ptr(<<"0">>), Ptr(<<"1">>))

\* a HistItem of more buckets than PamParseHistogram() accepts
HugeHistItem ==
    XMLHistItem(Ptr(<<"0">>), Ptr(FormatG16(MaxDouble)), Ptr(FormatInt(INT_MAX \div 2 + 1)),
                Ptr(<<"1">>), Ptr(<<"0">>), Ptr(<<"1">>))

\* the histogram lists a document gives the record: none, one with a
\* malformed HistItem (counts too short, too many buckets), one with a child
\* that is no HistItem
LoadedHistograms ==
    { NULL, Ptr(<<ShortHistItem>>), Ptr(<<HugeHistItem>>),
      Ptr(<<[BaseHistItem EXCEPT !.pszValue = "Metadata"]>>) }

\* a band of a GDALPamDataset: without a record, or with the record and the
\* histogram list XMLInit() has given it
InitHist ==
    /\ eDataType = "GDT_Byte"
    /\ poDS = "GDALPamDataset"
    /\ bPamEnabled \in BOOLEAN
    /\ psPam \in {NullPam} \cup
                 (IF bPamEnabled
                  THEN { [DefaultPam EXCEPT !.poParentDS = TRUE, !.psSavedHistograms = h] :
                             h \in LoadedHistograms }
                  ELSE {})
    /\ dsPam = psPam.alloc
    /\ bDirty = FALSE
    /\ sDescription = ""
    /\ oMDMD = NULL
    /\ nBand = 0
    /\ nFlags = MOFlagsAsConstructed
    /\ heap = NoHeap
    /\ lastOp = Called("XMLInit", NULL, Void(Cur))
    /\ lastSet = NoneSet

\* the list has room for another node
HistRoom ==
    IF IsNull(psPam.psSavedHistograms)
    THEN TRUE
    ELSE Len(Deref(psPam.psSavedHistograms)) < MaxHistItems

\* the defaults that leave the list within its bound: any when the list has
\* room, else those that replace a node of the list
SettableHistograms ==
    {h \in DefaultHistograms :
        IF HistRoom
        THEN TRUE
        ELSE PamFindMatchingHistogram(psPam.psSavedHistograms, h.dfMin, h.dfMax, h.nBuckets, 1, 1) # 0}

NextHist ==
    \/ TrySaveXML
    \/ CallSetDefaultHistogram(SettableHistograms)
    \/ HistRoom /\ CallGetHistogram(HistogramQueries)
    \/ CallGetDefaultHistogram(DefaultHistogramQueries)

SpecHist == InitHist /\ [][NextHist]_vars

\* the same band with no list of histograms yet
InitNoHist == InitHist /\ IsNull(psPam.psSavedHistograms)

SpecNoHist == InitNoHist /\ [][NextHist]_vars

(***************************************************************************)
(* A band that is made without a dataset, given a record of its own by     *)
(* PamInitializeNoParent(), and then put into a dataset.                   *)
(***************************************************************************)
\* GDALDataset::SetBand(): the band gets its dataset, of any kind, whose
\* store is not made yet
SetBand ==
    /\ poDS = "nullptr"
    /\ poDS' \in DatasetKinds \ {"nullptr"}
    /\ bPamEnabled' \in (IF poDS' = "GDALPamDataset" THEN BOOLEAN ELSE {FALSE})
    /\ lastOp' = Called("SetBand", NULL, Void(Cur))
    /\ UNCHANGED <<eDataType, dsPam, bDirty, psPam, sDescription, oMDMD, nBand, nFlags, heap, lastSet>>

InitAttach == InitByte /\ poDS = "nullptr"

NextAttach ==
    \/ CallPamInitializeNoParent
    \/ CallPamInitialize
    \/ SetBand
    \/ CallSetOffset({0, MaxDouble})
    \/ CallSetScale({MaxDouble})
    \/ CallSetUnitType({Ptr("m")})
    \/ CallSetDefaultRAT({Ptr([nRows |-> 0, nCols |-> MaxRat])})
    \/ CallSetDefaultHistogram({[dfMin |-> 0, dfMax |-> MaxDouble, nBuckets |-> 2,
                                 panHistogram |-> <<0, MaxCount>>]})
    \/ CallGetNoDataValue
    \/ CallGetNoDataValueAsInt64
    \/ CallGetNoDataValueAsUInt64
    \/ CallGetOffset
    \/ CallGetScale
    \/ CallGetUnitType
    \/ CallGetCategoryNames
    \/ CallGetColorTable
    \/ CallGetColorInterpretation
    \/ CallGetDefaultRAT
    \/ CallGetDefaultHistogram(DefaultHistogramQueries)

SpecAttach == InitAttach /\ [][NextAttach]_vars

(***************************************************************************)
(* Writing the record to a tree and reading a tree.  The band starts with  *)
(* what a sequence of setters has stored in it.                            *)
(***************************************************************************)
\* nodata values to store: a whole number, NaN, a fraction that its text of
\* fourteen digits gives exactly, one that it does not give, a whole number
\* that it does not give
StoredDoubles == {MaxDouble, NaN, DBL_HALF, DBL_0_30000000000000004, DBL_2_53}

\* the setter of the nodata value that was called last, if any, and its
\* argument
NoDataCalls ==
    {NULL} \cup {Ptr([op |-> "SetNoDataValue", v |-> d]) : d \in StoredDoubles}
           \cup {Ptr([op |-> "SetNoDataValueAsInt64", v |-> MaxInt]),
                 Ptr([op |-> "SetNoDataValueAsUInt64", v |-> MaxInt + 1])}

\* the offset and the scale given to SetOffset and SetScale, if called
ScalingCalls ==
    { [dfOffset |-> o, dfScale |-> sc] :
          o \in {NULL, Ptr(0), Ptr(DBL_0_30000000000000004)}, sc \in {NULL, Ptr(DBL_HALF)} }

\* the calls of SetColorTable and SetColorInterpretation: none, one of them,
\* or SetColorInterpretation(GCI_GrayIndex) after SetColorTable
ColourCalls == {"none", "interp", "table", "table, interp"}

\* one more call: none, SetUnitType, SetCategoryNames, SetDefaultRAT with a
\* table and with an empty table, SetDefaultHistogram
OtherCalls ==
    {"none", "SetUnitType", "SetCategoryNames", "SetDefaultRAT", "SetDefaultRAT, empty", "SetDefaultHistogram"}

\* the calls made on a band before it is written: of at most two of the
\* four kinds
XMLInputs ==
    LET none == [nodata |-> NULL, scaling |-> [dfOffset |-> NULL, dfScale |-> NULL],
                 colour |-> "none", other |-> "none"]
    IN { in \in { [nodata |-> nd, scaling |-> sc, colour |-> co, other |-> ot] :
                      nd \in NoDataCalls, sc \in ScalingCalls, co \in ColourCalls,
                      ot \in OtherCalls } :
            Cardinality({f \in DOMAIN none : in[f] # none[f]}) <= 2 }

TheColorTable == Ptr(<<[c1 |-> 255, c2 |-> 255, c3 |-> 255, c4 |-> 0]>>)

TheCategoryNames == Ptr(<<"", "water">>)

\* a band of the number n as constructed, on a dataset that is not dirty
FreshBand(n) == Band(NullPam, FALSE, FALSE, "", NULL, n, MOFlagsAsConstructed)

\* the band after the calls of in on a band as constructed; the band after
\* each call is the one member of a set
Stored(in, n) ==
    LET S0 == {PamInitialize(FreshBand(n), TRUE)}
        S1 == { IF IsNull(in.nodata) THEN b
                ELSE IF Deref(in.nodata).op = "SetNoDataValue"
                THEN SetNoDataValue(b, Deref(in.nodata).v, TRUE).b
                ELSE IF Deref(in.nodata).op = "SetNoDataValueAsInt64"
                THEN SetNoDataValueAsInt64(b, Deref(in.nodata).v, TRUE).b
                ELSE SetNoDataValueAsUInt64(b, Deref(in.nodata).v, TRUE).b : b \in S0 }
        S2 == { IF IsNull(in.scaling.dfOffset) THEN b
                ELSE SetOffset(b, Deref(in.scaling.dfOffset), TRUE).b : b \in S1 }
        S3 == { IF IsNull(in.scaling.dfScale) THEN b
                ELSE SetScale(b, Deref(in.scaling.dfScale), TRUE).b : b \in S2 }
        S4 == { IF in.colour \in {"table", "table, interp"}
                THEN SetColorTable(b, TheColorTable, TRUE).b
                ELSE b : b \in S3 }
        S5 == { IF in.colour \in {"interp", "table, interp"}
                THEN SetColorInterpretation(b, "GCI_GrayIndex", TRUE).b
                ELSE b : b \in S4 }
        S6 == { CASE in.other = "none" -> b
                  [] in.other = "SetUnitType" -> SetUnitType(b, Ptr("m"), TRUE).b
                  [] in.other = "SetCategoryNames" ->
                         SetCategoryNames(b, TheCategoryNames, TRUE).b
                  [] in.other = "SetDefaultRAT" ->
                         SetDefaultRAT(b, Ptr([nRows |-> MaxRat, nCols |-> MaxRat]), TRUE).b
                  [] in.other = "SetDefaultRAT, empty" ->
                         SetDefaultRAT(b, Ptr([nRows |-> 0, nCols |-> 0]), TRUE).b
                  [] in.other = "SetDefaultHistogram" ->
                         SetDefaultHistogram(b, 0, MaxDouble, 2, <<0, MaxCount>>, TRUE, TRUE).b
                : b \in S5 }
    IN S6

\* what the setters were last given by the calls of in
StoredSet(in) ==
    [ SetOffset              |-> in.scaling.dfOffset,
      SetScale               |-> in.scaling.dfScale,
      SetUnitType            |-> IF in.other = "SetUnitType" THEN Ptr(Ptr("m")) ELSE NULL,
      SetColorInterpretation |-> IF in.colour \in {"interp", "table, interp"}
                                 THEN Ptr("GCI_GrayIndex") ELSE NULL,
      SetCategoryNames       |-> IF in.other = "SetCategoryNames"
                                 THEN Ptr(TheCategoryNames) ELSE NULL,
      SetColorTable          |-> IF in.colour \in {"table", "table, interp"}
                                 THEN Ptr(TheColorTable) ELSE NULL,
      SetDefaultRAT          |-> CASE in.other = "SetDefaultRAT" ->
                                          Ptr(Ptr([nRows |-> MaxRat, nCols |-> MaxRat]))
                                   [] in.other = "SetDefaultRAT, empty" ->
                                          Ptr(Ptr([nRows |-> 0, nCols |-> 0]))
                                   [] OTHER -> NULL,
      bTableSince            |-> in.colour = "table" ]

\* trees to read: a nodata value with its eight bytes in hex and a text of
\* another value, with hex of four bytes, a scale alone, minimum and maximum
XMLTrees ==
    { [EmptyTree EXCEPT !.NoDataValue = Ptr(FormatE14(MaxDouble)),
                        !.le_hex_equiv = Ptr(LittleEndianHex(d))] : d \in {DBL_HALF, NaN} }
    \cup
    { [EmptyTree EXCEPT !.NoDataValue = Ptr(FormatE14(MaxDouble)),
                        !.le_hex_equiv = Ptr(SubSeq(LittleEndianHex(DBL_HALF), 9, 16))],
      [EmptyTree EXCEPT !.Scale = Ptr(FormatG16(DBL_HALF))],
      [EmptyTree EXCEPT !.Minimum = Ptr(FormatG16(0)), !.Maximum = Ptr(FormatG16(MaxDouble))] }

\* a band of a GDALPamDataset, numbered or not, that is as constructed, or
\* has a record with a description or without and what the setters stored
InitXML ==
    /\ eDataType \in {"GDT_Byte", "GDT_Int64"}
    /\ poDS = "GDALPamDataset"
    /\ bPamEnabled = TRUE
    /\ nBand \in {0, 1}
    /\ nFlags = MOFlagsAsConstructed
    /\ heap = NoHeap
    /\ oMDMD = NULL
    /\ \/ /\ psPam = NullPam
          /\ dsPam = FALSE
          /\ bDirty = FALSE
          /\ sDescription = ""
          /\ lastSet = NoneSet
       \/ \E in \in XMLInputs, desc \in {"", "elevation"} :
             \E b0 \in Stored(in, nBand) :
                \E b \in {SetDescription(b0, desc, TRUE).b} :
                   /\ psPam = b.psPam
                   /\ dsPam = b.dsPam
                   /\ bDirty = b.bDirty
                   /\ sDescription = b.sDescription
                   /\ lastSet = StoredSet(in)
    /\ lastOp = Called("new", NULL, Void(Cur))

\* the band is written, the dataset is opened again and the band reads
\* what it has written, and the band as InitXML gives it is given metadata
\* or reads a tree
NextXML ==
    \/ CallSerializeToXML
    \/ Reopen
    \/ lastOp.op = "new" /\ CallSetMetadata({Ptr(<<"AREA_OR_POINT=Area">>)})
    \/ lastOp.op = "new" /\ CallXMLInit({[psTree |-> t, onNullAccess |-> "CE_None"] : t \in XMLTrees})

SpecXML == InitXML /\ [][NextXML]_vars

(***************************************************************************)
(* Taking over the values of another band.                                 *)
(***************************************************************************)
\* the flags of nCloneFlags that select what is taken over
CloneCategories ==
    { "GCIF_BAND_METADATA", "GCIF_BAND_DESCRIPTION", "GCIF_NODATA", "GCIF_CATEGORYNAMES",
      "GCIF_SCALEOFFSET", "GCIF_UNITTYPE", "GCIF_COLORINTERP", "GCIF_COLORTABLE", "GCIF_RAT" }

\* nCloneFlags: nothing, one category, colour interpretation with colour
\* table, everything; each with GCIF_ONLY_IF_MISSING and without
CloneFlagSets ==
    LET selections == {{}, CloneCategories, {"GCIF_COLORINTERP", "GCIF_COLORTABLE"}}
                          \cup {{f} : f \in CloneCategories}
    IN selections \cup {sel \cup {"GCIF_ONLY_IF_MISSING"} : sel \in selections}

AnotherColorTable == Ptr(<<[c1 |-> 0, c2 |-> 0, c3 |-> 0, c4 |-> 255]>>)

\* a band all of whose getters give a value
FullSrcBand ==
    [ papszMetadata      |-> Ptr(<<"STATISTICS_VALID_PERCENT=50">>),
      sDescription       |-> "depth",
      eDataType          |-> "GDT_Byte",
      NoData             |-> [ret |-> MaxDouble, ok |-> TRUE],
      papszCategoryNames |-> Ptr(<<"water">>),
      Offset             |-> [ret |-> DBL_HALF, ok |-> TRUE],
      Scale              |-> [ret |-> DBL_HALF, ok |-> TRUE],
      pszUnitType        |-> "ft",
      eColorInterp       |-> "GCI_GrayIndex",
      poColorTable       |-> AnotherColorTable,
      poRAT              |-> Ptr([nRows |-> MaxRat, nCols |-> 0]) ]

\* a band none of whose getters gives a value; its attribute table has no
\* row and no column
EmptySrcBand ==
    [ papszMetadata      |-> NULL,
      sDescription       |-> "",
      eDataType          |-> "GDT_Byte",
      NoData             |-> [ret |-> GDAL_PAM_DEFAULT_NODATA_VALUE, ok |-> FALSE],
      papszCategoryNames |-> NULL,
      Offset             |-> [ret |-> 0, ok |-> FALSE],
      Scale              |-> [ret |-> 1, ok |-> FALSE],
      pszUnitType        |-> "",
      eColorInterp       |-> "GCI_Undefined",
      poColorTable       |-> NULL,
      poRAT              |-> Ptr([nRows |-> 0, nCols |-> 0]) ]

\* the bands CloneInfo takes from: the two above; an Int64 band with the
\* offset 0.0 and the scale 1.0 set, the unit in capitals and no attribute
\* table; a band with the nodata value NaN; a UInt64 band
SrcBands ==
    { FullSrcBand,
      EmptySrcBand,
      [EmptySrcBand EXCEPT !.eDataType = "GDT_Int64",
                           !.NoData = [ret |-> 0, ok |-> TRUE],
                           !.Offset = [ret |-> 0, ok |-> TRUE],
                           !.Scale = [ret |-> 1, ok |-> TRUE],
                           !.pszUnitType = "M",
                           !.eColorInterp = "GCI_PaletteIndex",
                           !.poRAT = NULL],
      [EmptySrcBand EXCEPT !.NoData = [ret |-> NaN, ok |-> TRUE]],
      [EmptySrcBand EXCEPT !.eDataType = "GDT_UInt64",
                           !.NoData = [ret |-> MaxInt + 1, ok |-> TRUE]] }

CloneArgs == {[poSrcBand |-> src, nCloneFlags |-> f] : src \in SrcBands, f \in CloneFlagSets}

\* what the band that takes over holds: nothing; a value of every kind,
\* each another than FullSrcBand gives; what FullSrcBand gives; the nodata
\* value NaN; an int64 nodata value
CloneAcceptors ==
    { [psPam |-> DefaultPam, sDescription |-> "", oMDMD |-> NULL],
      [psPam |-> [DefaultPam EXCEPT !.bNoDataValueSet = TRUE, !.dfNoDataValue = 0,
                                    !.bOffsetSet = TRUE, !.dfOffset = MaxDouble,
                                    !.bScaleSet = TRUE, !.dfScale = 0,
                                    !.pszUnitType = Ptr("m"),
                                    !.papszCategoryNames = TheCategoryNames,
                                    !.eColorInterp = "GCI_PaletteIndex",
                                    !.poColorTable = TheColorTable,
                                    !.poDefaultRAT = Ptr([nRows |-> 0, nCols |-> MaxRat])],
       sDescription |-> "elevation",
       oMDMD |-> Ptr(<<"AREA_OR_POINT=Area">>)],
      [psPam |-> [DefaultPam EXCEPT !.bNoDataValueSet = TRUE, !.dfNoDataValue = MaxDouble,
                                    !.bOffsetSet = TRUE, !.dfOffset = DBL_HALF,
                                    !.bScaleSet = TRUE, !.dfScale = DBL_HALF,
                                    !.pszUnitType = Ptr("ft"),
                                    !.papszCategoryNames = Ptr(<<"water">>),
                                    !.eColorInterp = "GCI_GrayIndex",
                                    !.poColorTable = AnotherColorTable,
                                    !.poDefaultRAT = Ptr([nRows |-> MaxRat, nCols |-> 0])],
       sDescription |-> "depth",
       oMDMD |-> Ptr(<<"STATISTICS_VALID_PERCENT=50">>)],
      [psPam |-> [DefaultPam EXCEPT !.bNoDataValueSet = TRUE, !.dfNoDataValue = NaN],
       sDescription |-> "", oMDMD |-> NULL],
      [psPam |-> [DefaultPam EXCEPT !.bNoDataValueSetAsInt64 = TRUE, !.nNoDataValueInt64 = 0],
       sDescription |-> "", oMDMD |-> NULL] }

\* a Byte or Int64 band of a GDALPamDataset, with a record linked to its
\* store or, with PAM enabled or not, as constructed; GMO_MD_DIRTY or
\* GMO_IGNORE_UNIMPLEMENTED may be raised
InitClone ==
    /\ eDataType \in {"GDT_Byte", "GDT_Int64"}
    /\ poDS = "GDALPamDataset"
    /\ bPamEnabled \in BOOLEAN
    /\ nBand = 1
    /\ nFlags \in { MOFlagsAsConstructed,
                    MOFlagsAsConstructed \cup {"GMO_IGNORE_UNIMPLEMENTED"},
                    MOFlagsAsConstructed \cup {"GMO_MD_DIRTY"} }
    /\ heap = NoHeap
    /\ bDirty = FALSE
    /\ lastSet = NoneSet
    /\ \/ /\ psPam = NullPam
          /\ dsPam = FALSE
          /\ sDescription = ""
          /\ oMDMD = NULL
       \/ /\ bPamEnabled
          /\ dsPam = TRUE
          /\ \E a \in CloneAcceptors :
                /\ psPam = [a.psPam EXCEPT !.poParentDS = TRUE]
                /\ sDescription = a.sDescription
                /\ oMDMD = a.oMDMD
    /\ lastOp = Called("new", NULL, Void(Cur))

NextClone == lastOp.op = "new" /\ CallCloneInfo(CloneArgs)

SpecClone == InitClone /\ [][NextClone]_vars

(***************************************************************************)
(* The objects behind the pointers: who owns what.  The pointer fields of  *)
(* the record hold addresses here, and the caller of the band makes,       *)
(* changes and deletes objects of its own.                                 *)
(***************************************************************************)
\* what a caller can pass for an object of a kind: nullptr or the address of
\* a live object of the kind, among them the one a getter of the band gave
PointersTo(kind) ==
    {NULL} \cup {Ptr(a) : a \in {c \in Addrs : heap[c].state = "live" /\ heap[c].kind = kind}}

\* the process has not ended, and there is room for the object a call may make
CanCall == lastOp.ret # "SIGSEGV" /\ HasRoom(heap)

\* a call with the addresses followed
ApplyAt(op, arg, o) == Store(op, arg, o) /\ heap' = o.heap

CallSetCategoryNamesAt ==
    /\ CanCall
    /\ \E p \in PointersTo("char **"), bAllocOK \in BOOLEAN :
          \E o \in SetCategoryNamesAt(heap, Cur, p, bAllocOK) : ApplyAt("SetCategoryNames", p, o)

CallSetColorTableAt ==
    /\ CanCall
    /\ \E p \in PointersTo("GDALColorTable"), bAllocOK \in BOOLEAN :
          \E o \in SetColorTableAt(heap, Cur, p, bAllocOK) : ApplyAt("SetColorTable", p, o)

CallSetDefaultRATAt ==
    /\ CanCall
    /\ \E p \in PointersTo("GDALRasterAttributeTable"), bAllocOK \in BOOLEAN :
          \E o \in SetDefaultRATAt(heap, Cur, p, bAllocOK) : ApplyAt("SetDefaultRAT", p, o)

\* the caller makes an object, of the kind of those there are: the setters
\* share no field and no object, so one kind is followed at a time
CallerMakes ==
    /\ CanCall
    /\ \E kind \in ObjectKinds :
          \E v \in ObjectValues(kind) :
              /\ \A a \in Addrs : heap[a].kind \in {"", kind}
              /\ ApplyAt("make", NULL, WithHeap(Void(Cur), New(heap, kind, v, TRUE).heap))

\* the caller changes what an object of its own holds
CallerChanges ==
    \E a \in Addrs :
        /\ lastOp.ret # "SIGSEGV"
        /\ heap[a].state = "live"
        /\ heap[a].mine
        /\ \E v \in ObjectValues(heap[a].kind) \ {heap[a].val} :
              ApplyAt("change", Ptr(a), WithHeap(Void(Cur), [heap EXCEPT ![a].val = v]))

\* the caller deletes an object of its own
CallerDeletes ==
    \E a \in Addrs :
        /\ lastOp.ret # "SIGSEGV"
        /\ heap[a].state = "live"
        /\ heap[a].mine
        /\ ApplyAt("delete", Ptr(a), WithHeap(Void(Cur), Release(heap, Ptr(a))))

\* a Byte band as constructed, of a GDALPamDataset with PAM enabled, and no
\* object yet
InitOwn ==
    /\ Init
    /\ eDataType = "GDT_Byte"
    /\ poDS = "GDALPamDataset"
    /\ bPamEnabled

NextOwn ==
    \/ CallSetCategoryNamesAt
    \/ CallSetColorTableAt
    \/ CallSetDefaultRATAt
    \/ CallerMakes
    \/ CallerChanges
    \/ CallerDeletes

SpecOwn == InitOwn /\ [][NextOwn]_vars

(***************************************************************************)
(* Reading trees into bands of every pixel type, with a record or without, *)
(* and reading the same tree again.                                        *)
(***************************************************************************)
\* what the band has stored before it reads: nothing (the record as
\* created), a double nodata value with an offset, names and a histogram, or
\* an int64 nodata value with a scale and a colour table
LoadRecords ==
    { DefaultPam,
      [DefaultPam EXCEPT !.bNoDataValueSet = TRUE, !.dfNoDataValue = 0,
                         !.bOffsetSet = TRUE, !.dfOffset = DBL_HALF,
                         !.pszUnitType = Ptr("ft"),
                         !.papszCategoryNames = Ptr(<<"", "water", "">>),
                         !.psSavedHistograms = Ptr(<<BaseHistItem>>)],
      [DefaultPam EXCEPT !.bNoDataValueSetAsInt64 = TRUE, !.nNoDataValueInt64 = 0,
                         !.bScaleSet = TRUE, !.dfScale = DBL_HALF,
                         !.poColorTable = TheColorTable,
                         !.eColorInterp = "GCI_PaletteIndex"] }

\* the children of a CategoryNames element: two categories, the first
\* without a text; then with a text node, an element of another name and a
\* category whose first child is an element between them
CategoryChildren ==
    { <<[eType |-> "CXT_Element", pszValue |-> "Category", psChild |-> NULL],
        CategoryElement("water")>>,
      <<CategoryElement(""),
        [eType |-> "CXT_Text", pszValue |-> "water", psChild |-> NULL],
        [eType |-> "CXT_Element", pszValue |-> "Entry",
         psChild |-> Ptr([eType |-> "CXT_Text", pszValue |-> "water"])],
        [eType |-> "CXT_Element", pszValue |-> "Category",
         psChild |-> Ptr([eType |-> "CXT_Element", pszValue |-> "water"])],
        CategoryElement("water")>>,
      <<[eType |-> "CXT_Text", pszValue |-> "water", psChild |-> NULL]>> }

\* trees to read: a nodata value in text alone, with its eight bytes in hex,
\* with hex of four bytes; a scale alone, an offset alone, both; a unit;
\* category names; a colour interpretation with a colour table; minimum and
\* maximum with a histogram and an attribute table; no child at all
LoadTrees ==
    { [EmptyTree EXCEPT !.NoDataValue = Ptr(FormatInt(MaxInt + 1))],
      [EmptyTree EXCEPT !.NoDataValue = Ptr(FormatE14(MaxDouble)),
                        !.le_hex_equiv = Ptr(LittleEndianHex(DBL_HALF))],
      [EmptyTree EXCEPT !.NoDataValue = Ptr(FormatE14(MaxDouble)),
                        !.le_hex_equiv = Ptr(SubSeq(LittleEndianHex(DBL_HALF), 9, 16))],
      [EmptyTree EXCEPT !.Scale = Ptr(FormatG16(DBL_0_3))],
      [EmptyTree EXCEPT !.Offset = Ptr(FormatG16(DBL_0_3))],
      [EmptyTree EXCEPT !.Offset = Ptr(FormatG16(MaxDouble)),
                        !.Scale = Ptr(FormatG16(DBL_0_3))],
      [EmptyTree EXCEPT !.UnitType = Ptr("m"), !.Description = Ptr("elevation")],
      [EmptyTree EXCEPT !.ColorInterp = Ptr("Gray"),
                        !.ColorTable = Ptr(<<EntryElement(Deref(TheColorTable)[1])>>)],
      [EmptyTree EXCEPT !.Minimum = Ptr(FormatG16(0)), !.Maximum = Ptr(FormatG16(MaxDouble)),
                        !.Histograms = Ptr(<<BaseHistItem, BaseHistItem>>),
                        !.GDALRasterAttributeTable = Ptr([nRows |-> MaxRat, nCols |-> MaxRat])],
      EmptyTree }
    \cup { [EmptyTree EXCEPT !.CategoryNames = Ptr(c)] : c \in CategoryChildren }

\* a band of any dataset kind and pixel type: as constructed, or with a
\* record linked to the store of its GDALPamDataset, or with an unlinked
\* record, which PamInitializeNoParent() gives
InitLoad ==
    /\ eDataType \in DataTypes
    /\ poDS \in {"nullptr", "GDALPamDataset"}
    /\ bPamEnabled \in (IF poDS = "GDALPamDataset" THEN BOOLEAN ELSE {FALSE})
    /\ nBand = 1
    /\ nFlags = MOFlagsAsConstructed
    /\ heap = NoHeap
    /\ oMDMD = NULL
    /\ bDirty = FALSE
    /\ sDescription = ""
    /\ lastSet = NoneSet
    /\ \/ /\ psPam = NullPam
          /\ dsPam = FALSE
       \/ /\ poDS = "GDALPamDataset"
          /\ bPamEnabled
          /\ dsPam = TRUE
          /\ psPam \in {[p EXCEPT !.poParentDS = TRUE] : p \in LoadRecords}
       \/ /\ dsPam = FALSE
          /\ psPam \in LoadRecords
    /\ lastOp = Called("new", NULL, Void(Cur))

\* the arguments of XMLInit: a tree, and what an access through a null
\* psPam does
LoadArgs == {[psTree |-> t, onNullAccess |-> a] : t \in LoadTrees, a \in NullAccessOutcomes}

\* the band as InitLoad gives it is written and opened again, or reads a
\* tree; a band that has read a tree reads the same tree again
NextLoad ==
    \/ lastOp.op = "new" /\ Reopen
    \/ lastOp.op = "new" /\ CallXMLInit(LoadArgs)
    \/ lastOp.op = "XMLInit" /\ lastOp.ret # "SIGSEGV" /\ CallXMLInit({lastOp.arg})

SpecLoad == InitLoad /\ [][NextLoad]_vars

(***************************************************************************)
(* The properties.                                                         *)
(***************************************************************************)
\* the three nodata 'set' flags of the record that are true
NoDataFlagsSet ==
    {f \in {"double", "int64", "uint64"} :
        \/ f = "double" /\ psPam.bNoDataValueSet
        \/ f = "int64" /\ psPam.bNoDataValueSetAsInt64
        \/ f = "uint64" /\ psPam.bNoDataValueSetAsUInt64}

NoDataSetters == {"SetNoDataValue", "SetNoDataValueAsInt64", "SetNoDataValueAsUInt64"}

\* C1: whenever the band has a record at most one of the three nodata 'set'
\* flags is true; right after SetNoDataValue, SetNoDataValueAsInt64 or
\* SetNoDataValueAsUInt64 on a band with a record exactly the flag of the
\* method just called is true, and right after DeleteNoDataValue none is.
C1_NoDataExclusive ==
    psPam.alloc =>
        /\ Cardinality(NoDataFlagsSet) <= 1
        /\ lastOp.op = "SetNoDataValue" => NoDataFlagsSet = {"double"}
        /\ lastOp.op = "SetNoDataValueAsInt64" => NoDataFlagsSet = {"int64"}
        /\ lastOp.op = "SetNoDataValueAsUInt64" => NoDataFlagsSet = {"uint64"}
        /\ lastOp.op = "DeleteNoDataValue" => NoDataFlagsSet = {}

\* SetNoDataValueAsInt64 has just replaced a nodata value on a record that
\* was there before the call
C1_Witness ==
    /\ lastOp.op = "SetNoDataValueAsInt64"
    /\ lastOp.wasLinked
    /\ lastOp.changed
    /\ psPam.bNoDataValueSetAsInt64
    /\ psPam.nNoDataValueInt64 = 0

\* C2: on a band whose record is linked to a parent store every call of
\* SetNoDataValue, SetNoDataValueAsInt64 or SetNoDataValueAsUInt64 marks the
\* parent store dirty, also when it stores the value and variant that were
\* stored already.
C2_NoDataAlwaysDirty ==
    (lastOp.op \in NoDataSetters /\ lastOp.wasLinked) =>
        (lastOp.marked /\ bDirty /\ lastOp.ret = "CE_None")

\* SetNoDataValue has stored again what was stored, and marked the store dirty
C2_Witness ==
    /\ lastOp.op = "SetNoDataValue"
    /\ lastOp.wasLinked
    /\ ~lastOp.changed
    /\ lastOp.marked
    /\ bDirty

\* C3: with a record present, GetNoDataValueAsInt64 on a band that is not
\* Int64 and GetNoDataValueAsUInt64 on a band that is not UInt64 report an
\* error, give success = false and the default sentinel of the type, and change
\* neither the record nor the dirty flag; on the matching pixel type they give
\* the stored value with success equal to the 'set' flag of the variant.
C3_NoDataAs64 ==
    /\ (lastOp.op = "GetNoDataValueAsInt64" /\ psPam.alloc) =>
          /\ ~lastOp.changed /\ ~lastOp.marked /\ ~lastOp.delegated
          /\ IF eDataType # "GDT_Int64"
             THEN /\ lastOp.err /\ ~lastOp.ok
                  /\ lastOp.ret = GDAL_PAM_DEFAULT_NODATA_VALUE_INT64
             ELSE /\ ~lastOp.err
                  /\ lastOp.ret = psPam.nNoDataValueInt64
                  /\ lastOp.ok = psPam.bNoDataValueSetAsInt64
    /\ (lastOp.op = "GetNoDataValueAsUInt64" /\ psPam.alloc) =>
          /\ ~lastOp.changed /\ ~lastOp.marked /\ ~lastOp.delegated
          /\ IF eDataType # "GDT_UInt64"
             THEN /\ lastOp.err /\ ~lastOp.ok
                  /\ lastOp.ret = GDAL_PAM_DEFAULT_NODATA_VALUE_UINT64
             ELSE /\ ~lastOp.err
                  /\ lastOp.ret = psPam.nNoDataValueUInt64
                  /\ lastOp.ok = psPam.bNoDataValueSetAsUInt64

\* GetNoDataValueAsInt64 has refused on a band that is not Int64 although an
\* int64 nodata value other than the sentinel is stored
C3_Witness ==
    /\ lastOp.op = "GetNoDataValueAsInt64"
    /\ eDataType = "GDT_UInt64"
    /\ psPam.bNoDataValueSetAsInt64
    /\ psPam.nNoDataValueInt64 # GDAL_PAM_DEFAULT_NODATA_VALUE_INT64
    /\ lastOp.err
    /\ lastOp.ret = GDAL_PAM_DEFAULT_NODATA_VALUE_INT64

\* 'no unit' for a null pointer and for the empty string, else the unit
UnitOf(psz) == IF IsNull(psz) \/ Deref(psz) = "" THEN "" ELSE Deref(psz)

\* C6: on a band with a parent-linked record SetOffset, SetScale, SetUnitType
\* and SetDescription mark the parent store dirty if and only if the new value
\* differs from the stored one or the stored one was unset (doubles compared
\* as the code compares them, with != ; a null or empty unit is 'no unit'); a
\* call that does not mark leaves the dirty flag as it was.
C6_ScalarDirtyIffDiffers ==
    [][ (psPam.alloc /\ psPam.poParentDS) =>
          /\ lastOp'.op = "SetOffset" =>
                (lastOp'.marked <=>
                    (~psPam.bOffsetSet \/ DblNE(lastOp'.arg, psPam.dfOffset)))
          /\ lastOp'.op = "SetScale" =>
                (lastOp'.marked <=>
                    (~psPam.bScaleSet \/ DblNE(lastOp'.arg, psPam.dfScale)))
          /\ lastOp'.op = "SetUnitType" =>
                (lastOp'.marked <=> UnitOf(lastOp'.arg) # UnitOf(psPam.pszUnitType))
          /\ lastOp'.op = "SetDescription" =>
                (lastOp'.marked <=> lastOp'.arg # sDescription)
          /\ lastOp'.op \in {"SetOffset", "SetScale", "SetUnitType", "SetDescription"} =>
                bDirty' = (bDirty \/ lastOp'.marked) ]_vars

\* SetOffset has repeated the stored offset on a linked record whose store was
\* clean, and the store is still clean
C6_Witness ==
    /\ lastOp.op = "SetOffset"
    /\ lastOp.wasLinked
    /\ psPam.bOffsetSet
    /\ psPam.dfOffset = lastOp.arg
    /\ ~lastOp.changed
    /\ ~lastOp.marked
    /\ ~bDirty

ObjectSetters ==
    {"SetColorInterpretation", "SetCategoryNames", "SetColorTable", "SetDefaultRAT"}

\* the field the setter named op writes is at its default (unset)
FieldUnset(op) ==
    CASE op = "SetColorInterpretation" -> psPam.eColorInterp = "GCI_Undefined"
      [] op = "SetCategoryNames" -> IsNull(psPam.papszCategoryNames)
      [] op = "SetColorTable" -> IsNull(psPam.poColorTable)
      [] op = "SetDefaultRAT" -> IsNull(psPam.poDefaultRAT)

\* C7 as stated: on a band with a parent-linked record SetColorInterpretation,
\* SetCategoryNames, SetColorTable and SetDefaultRAT mark the parent store
\* dirty only when the new value differs from the stored one or the stored one
\* was unset; a call that stores a value equal to the current one does not
\* mark the store dirty.
C7_AsStated ==
    (lastOp.op \in ObjectSetters /\ lastOp.wasLinked /\ ~lastOp.changed
        /\ ~FieldUnset(lastOp.op)) => ~lastOp.marked

\* C7 amended: on a band with a parent-linked record every call of
\* SetColorInterpretation, SetCategoryNames, SetColorTable and SetDefaultRAT
\* marks the parent store dirty, also when it stores a value equal to the
\* current one.
C7_ObjectAlwaysDirty ==
    (lastOp.op \in ObjectSetters /\ lastOp.wasLinked) =>
        (lastOp.marked /\ bDirty /\ lastOp.ret = "CE_None")

\* SetCategoryNames has stored again the names that were stored, and has
\* marked the store dirty
C7_Witness ==
    /\ lastOp.op = "SetCategoryNames"
    /\ lastOp.wasLinked
    /\ ~lastOp.changed
    /\ ~IsNull(psPam.papszCategoryNames)
    /\ lastOp.marked

\* the record PamInitialize creates
LinkedDefaultPam == [DefaultPam EXCEPT !.poParentDS = TRUE]

\* C8 as stated: PamInitialize changes nothing when the band has a record
\* linked to a parent store; when the band has no record, its dataset is
\* overlay-capable and the dataset-level store initializes, it leaves the band
\* with a record linked to that dataset; when the band has no dataset or the
\* dataset is not overlay-capable, it neither creates nor modifies a record.
C8_AsStated ==
    lastOp.op = "PamInitialize" =>
        /\ lastOp.wasLinked => (~lastOp.changed /\ ~lastOp.marked)
        /\ (~lastOp.hadPam /\ poDS = "GDALPamDataset" /\ dsPam) =>
              (psPam.alloc /\ psPam.poParentDS)
        /\ poDS # "GDALPamDataset" => ~lastOp.changed

\* C8 amended: as stated, but in the second case the band is left with a
\* (default) record linked to the dataset only if the allocation of the record
\* succeeds; if it fails the band is left without a record.
C8_PamInitialize ==
    lastOp.op = "PamInitialize" =>
        /\ lastOp.wasLinked => (~lastOp.changed /\ ~lastOp.marked)
        /\ (~lastOp.hadPam /\ poDS = "GDALPamDataset" /\ dsPam) =>
              psPam = (IF lastOp.arg THEN LinkedDefaultPam ELSE NullPam)
        /\ poDS # "GDALPamDataset" => ~lastOp.changed

\* PamInitialize has given a band without a record a record linked to the
\* dataset
C8_Witness ==
    /\ lastOp.op = "PamInitialize"
    /\ ~lastOp.hadPam
    /\ poDS = "GDALPamDataset"
    /\ psPam = LinkedDefaultPam

\* C9: PamInitializeNoParent never replaces or modifies an existing record,
\* linked or not; only when there is none does it create one, without a parent
\* link and with default field values (none if the allocation fails).
C9_PamInitializeNoParent ==
    lastOp.op = "PamInitializeNoParent" =>
        /\ ~lastOp.marked
        /\ lastOp.hadPam => ~lastOp.changed
        /\ ~lastOp.hadPam => psPam = (IF lastOp.arg THEN DefaultPam ELSE NullPam)

\* PamInitializeNoParent was called on a band whose record, linked to a parent
\* store, holds a nodata value
C9_Witness ==
    /\ lastOp.op = "PamInitializeNoParent"
    /\ lastOp.hadPam
    /\ psPam.poParentDS
    /\ psPam.bNoDataValueSet

\* what a setter was last given on this record, or default if it was given
\* nothing
LastGiven(op, default) ==
    IF IsNull(lastSet[op]) THEN default ELSE Deref(lastSet[op])

\* the strings of a list, none for a null pointer
NamesOf(papsz) == IF IsNull(papsz) THEN <<>> ELSE Deref(papsz)

\* the part of C4 about the getters other than GetColorInterpretation
C4_Getters ==
    /\ lastOp.op = "GetOffset" =>
          IF lastOp.hadPam
          THEN /\ ~lastOp.delegated
               /\ lastOp.ret = LastGiven("SetOffset", 0)
               /\ lastOp.ok = ~IsNull(lastSet.SetOffset)
          ELSE lastOp.delegated /\ lastOp.ret = 0 /\ ~lastOp.ok
    /\ lastOp.op = "GetScale" =>
          IF lastOp.hadPam
          THEN /\ ~lastOp.delegated
               /\ lastOp.ret = LastGiven("SetScale", 1)
               /\ lastOp.ok = ~IsNull(lastSet.SetScale)
          ELSE lastOp.delegated /\ lastOp.ret = 1 /\ ~lastOp.ok
    /\ lastOp.op = "GetUnitType" =>
          IF lastOp.hadPam
          THEN ~lastOp.delegated /\ lastOp.ret = UnitOf(LastGiven("SetUnitType", NULL))
          ELSE lastOp.delegated /\ lastOp.ret = ""
    /\ lastOp.op = "GetCategoryNames" =>
          IF lastOp.hadPam
          THEN /\ ~lastOp.delegated
               /\ NamesOf(lastOp.ret) = NamesOf(LastGiven("SetCategoryNames", NULL))
          ELSE lastOp.delegated /\ lastOp.ret = NULL
    /\ lastOp.op = "GetColorTable" =>
          IF lastOp.hadPam
          THEN ~lastOp.delegated /\ lastOp.ret = LastGiven("SetColorTable", NULL)
          ELSE lastOp.delegated /\ lastOp.ret = NULL
    /\ lastOp.op = "GetDefaultRAT" =>
          /\ lastOp.ret = LastGiven("SetDefaultRAT", NULL)
          /\ ~lastOp.hadPam => lastOp.ret = NULL
          /\ ~psPam.alloc => lastOp.delegated
    /\ lastOp.op = "GetNoDataValue" =>
          IF lastOp.hadPam
          THEN ~lastOp.delegated /\ (lastOp.ok <=> NoDataFlagsSet # {})
          ELSE /\ lastOp.delegated
               /\ lastOp.ret = GDAL_PAM_DEFAULT_NODATA_VALUE
               /\ ~lastOp.ok

\* C4 as stated: with a record present each getter returns what the matching
\* setter last stored (GetOffset/GetScale the last value given to
\* SetOffset/SetScale with success, or 0.0/1.0 without success if never set on
\* this record; GetUnitType the last non-empty unit or the empty string;
\* GetColorInterpretation, GetCategoryNames, GetColorTable and GetDefaultRAT
\* the content last given to their setters; GetNoDataValue success exactly
\* when a nodata variant is set); with no record each getter returns the
\* result of GDALRasterBand.
C4_AsStated ==
    /\ C4_Getters
    /\ lastOp.op = "GetColorInterpretation" =>
          IF lastOp.hadPam
          THEN /\ ~lastOp.delegated
               /\ lastOp.ret = LastGiven("SetColorInterpretation", "GCI_Undefined")
          ELSE lastOp.delegated /\ lastOp.ret = "GCI_Undefined"

\* C4 amended: as stated, but GetColorInterpretation returns the palette
\* index interpretation when a non-null colour table was given to
\* SetColorTable after the last SetColorInterpretation on this record.
C4_GettersReturnLastStored ==
    /\ C4_Getters
    /\ lastOp.op = "GetColorInterpretation" =>
          IF lastOp.hadPam
          THEN /\ ~lastOp.delegated
               /\ lastOp.ret = IF lastSet.bTableSince
                               THEN "GCI_PaletteIndex"
                               ELSE LastGiven("SetColorInterpretation", "GCI_Undefined")
          ELSE lastOp.delegated /\ lastOp.ret = "GCI_Undefined"

\* GetColorInterpretation was called on a record that was given the gray
\* index interpretation and then a colour table
C4_Witness ==
    /\ lastOp.op = "GetColorInterpretation"
    /\ lastOp.hadPam
    /\ lastSet.SetColorInterpretation = Ptr("GCI_GrayIndex")
    /\ lastSet.bTableSince
    /\ lastOp.ret = "GCI_PaletteIndex"

Mutators ==
    { "SetNoDataValue", "SetNoDataValueAsInt64", "SetNoDataValueAsUInt64",
      "DeleteNoDataValue", "SetOffset", "SetScale", "SetUnitType",
      "SetCategoryNames", "SetColorTable", "SetColorInterpretation",
      "SetDefaultRAT", "SetDefaultHistogram" }

\* C5: after a call of a mutator that lazy initialization left without a
\* record, the call has returned what GDALRasterBand returns, the band has no
\* record and no store was marked dirty; after a call that had a record, the
\* call has returned CE_None, unless it is SetDefaultHistogram, which returns
\* CE_None or CE_Failure.
C5_MutatorsDelegateOrSucceed ==
    lastOp.op \in Mutators =>
        IF psPam.alloc
        THEN /\ ~lastOp.delegated
             /\ lastOp.op # "SetDefaultHistogram" => lastOp.ret = "CE_None"
             /\ lastOp.op = "SetDefaultHistogram" => lastOp.ret \in {"CE_None", "CE_Failure"}
        ELSE /\ lastOp.delegated
             /\ lastOp.ret = GDALRasterBand_Set(Cur).ret
             /\ ~lastOp.marked

\* SetColorTable on a band of a dataset whose store cannot be created: the
\* unlinked record the band had is gone and the call was delegated
C5_Witness ==
    /\ lastOp.op = "SetColorTable"
    /\ lastOp.hadPam
    /\ ~psPam.alloc
    /\ lastOp.delegated
    /\ lastOp.ret = "CE_Failure"

\* SetDefaultHistogram has failed on a band with a record
C5_WitnessHistogram ==
    /\ lastOp.op = "SetDefaultHistogram"
    /\ psPam.alloc
    /\ lastOp.ret = "CE_Failure"

\* the children of the list that was searched
SearchedChildren ==
    IF IsNull(psPam.psSavedHistograms) THEN <<>> ELSE Deref(psPam.psSavedHistograms)

\* the child is a HistItem element (the name taken without regard to case,
\* an absent field for 0) that satisfies the request q
Satisfies(psXMLHist, q) ==
    /\ psXMLHist.eType = "CXT_Element"
    /\ EQUAL(psXMLHist.pszValue, "HistItem")
    /\ CPLAtofM(CPLGetXMLValue(psXMLHist, "HistMin", <<"0">>)) = q.dfMin
    /\ CPLAtofM(CPLGetXMLValue(psXMLHist, "HistMax", <<"0">>)) = q.dfMax
    /\ atoi(CPLGetXMLValue(psXMLHist, "BucketCount", <<"0">>)) = q.nBuckets
    /\ (atoi(CPLGetXMLValue(psXMLHist, "IncludeOutOfRange", <<"0">>)) # 0)
          <=> (q.bIncludeOutOfRange # 0)
    /\ ~(q.bApproxOK = 0
         /\ atoi(CPLGetXMLValue(psXMLHist, "Approximate", <<"0">>)) # 0)

\* C10: PamFindMatchingHistogram returns the first child in document order
\* that is a HistItem element with min and max equal to the requested ones,
\* the requested bucket count, includeOutOfRange equal to the requested one as
\* a boolean, and not flagged approximate while approxOK is false; it returns
\* nullptr when the list is absent or no child is such.
C10_FirstMatchingHistItem ==
    lastOp.op = "PamFindMatchingHistogram" =>
        LET matching == {i \in 1..Len(SearchedChildren) :
                             Satisfies(SearchedChildren[i], lastOp.arg)}
        IN IF matching = {}
           THEN lastOp.ret = 0
           ELSE lastOp.ret \in matching /\ \A i \in matching : lastOp.ret <= i

\* with approxOK false the second child was found, after a first child that
\* differs from it only in being flagged approximate, and the includeOutOfRange
\* text "2" of the second met the request 1
C10_Witness ==
    /\ lastOp.op = "PamFindMatchingHistogram"
    /\ lastOp.ret = 2
    /\ lastOp.arg.bApproxOK = 0
    /\ lastOp.arg.bIncludeOutOfRange = 1
    /\ SearchedChildren[2].IncludeOutOfRange = Ptr(<<"2">>)
    /\ SearchedChildren[1] = [SearchedChildren[2] EXCEPT !.Approximate = Ptr(<<"1">>)]
    /\ SearchedChildren[2].Approximate = NULL

\* with approxOK true the child flagged approximate was found
C10_WitnessApprox ==
    /\ lastOp.op = "PamFindMatchingHistogram"
    /\ lastOp.ret = 1
    /\ lastOp.arg.bApproxOK = 1
    /\ SearchedChildren[1].Approximate = Ptr(<<"1">>)

\* the children of the histogram list, none if there is no list
ChildrenOf(psSavedHistograms) ==
    IF IsNull(psSavedHistograms) THEN <<>> ELSE Deref(psSavedHistograms)

\* C11 as stated: after SetDefaultHistogram has returned success on a band
\* with a record, GetDefaultHistogram (its allocation succeeding) returns
\* success with the same min, max, bucket count and counts.
C11_AsStated ==
    (lastOp.op = "SetDefaultHistogram" /\ lastOp.ret = "CE_None" /\ psPam.alloc) =>
        \A q \in DefaultHistogramQueries :
            GetDefaultHistogram(Cur, q.native, TRUE).ret =
                HistResult("CE_None", lastOp.arg.dfMin, lastOp.arg.dfMax,
                           lastOp.arg.nBuckets, Ptr(lastOp.arg.panHistogram))

\* the same for histograms of at least one bucket
C11_WithBuckets ==
    (lastOp.op = "SetDefaultHistogram" /\ lastOp.ret = "CE_None" /\ psPam.alloc
        /\ lastOp.arg.nBuckets >= 1) =>
        \A q \in DefaultHistogramQueries :
            GetDefaultHistogram(Cur, q.native, TRUE).ret =
                HistResult("CE_None", lastOp.arg.dfMin, lastOp.arg.dfMax,
                           lastOp.arg.nBuckets, Ptr(lastOp.arg.panHistogram))

\* the child is a HistItem element with the min, max and bucket count of h
HasKey(psXMLHist, h) ==
    /\ psXMLHist.eType = "CXT_Element"
    /\ EQUAL(psXMLHist.pszValue, "HistItem")
    /\ CPLAtofM(CPLGetXMLValue(psXMLHist, "HistMin", <<"0">>)) = h.dfMin
    /\ CPLAtofM(CPLGetXMLValue(psXMLHist, "HistMax", <<"0">>)) = h.dfMax
    /\ atoi(CPLGetXMLValue(psXMLHist, "BucketCount", <<"0">>)) = h.nBuckets

\* the flags of a child
IncludesOutOfRange(psXMLHist) ==
    atoi(CPLGetXMLValue(psXMLHist, "IncludeOutOfRange", <<"0">>)) # 0

IsApproximate(psXMLHist) ==
    atoi(CPLGetXMLValue(psXMLHist, "Approximate", <<"0">>)) # 0

\* the counts a child holds for n buckets
CountsOf(psXMLHist, n) ==
    ParseHistCounts(CPLGetXMLValue(psXMLHist, "HistCounts", <<>>), 0, n)

\* the child is a descriptor as SetDefaultHistogram stores it for h
IsDefaultFor(psXMLHist, h) ==
    /\ HasKey(psXMLHist, h)
    /\ IncludesOutOfRange(psXMLHist)
    /\ ~IsApproximate(psXMLHist)

\* the least member of a set of positions, 0 for the empty set
First(positions) ==
    IF positions = {} THEN 0 ELSE CHOOSE i \in positions : \A j \in positions : i <= j

ReplacedList(before, now, h, i) ==
    /\ now # <<>>
    /\ IsDefaultFor(now[1], h)
    /\ CountsOf(now[1], h.nBuckets) = h.panHistogram
    /\ Tail(now) = IF i = 0
                   THEN before
                   ELSE SubSeq(before, 1, i - 1) \o SubSeq(before, i + 1, Len(before))

\* C13 as stated: a successful SetDefaultHistogram removes the first
\* descriptor with the same (min, max, bucket count) whatever its
\* includeOutOfRange and approximate flags are.
C13_AsStated ==
    LET before == ChildrenOf(lastOp.histBefore)
        now == ChildrenOf(psPam.psSavedHistograms)
        h == lastOp.arg
    IN (lastOp.op = "SetDefaultHistogram" /\ lastOp.ret = "CE_None" /\ psPam.alloc) =>
           ReplacedList(before, now, h,
                        First({i \in 1..Len(before) : HasKey(before[i], h)}))

\* C13 amended: a successful SetDefaultHistogram removes the first descriptor
\* with the same (min, max, bucket count) whose includeOutOfRange flag is
\* true, whatever its approximate flag is; a descriptor whose
\* includeOutOfRange flag is false stays in the list.
C13_RemovesIncludingOutOfRange ==
    LET before == ChildrenOf(lastOp.histBefore)
        now == ChildrenOf(psPam.psSavedHistograms)
        h == lastOp.arg
    IN (lastOp.op = "SetDefaultHistogram" /\ lastOp.ret = "CE_None" /\ psPam.alloc) =>
           ReplacedList(before, now, h,
                        First({i \in 1..Len(before) :
                                  HasKey(before[i], h) /\ IncludesOutOfRange(before[i])}))

\* SetDefaultHistogram has succeeded on a list that held a descriptor of the
\* same key with includeOutOfRange false, and the descriptor is still there
C13_Witness ==
    /\ lastOp.op = "SetDefaultHistogram"
    /\ lastOp.ret = "CE_None"
    /\ Len(ChildrenOf(lastOp.histBefore)) = 1
    /\ HasKey(ChildrenOf(lastOp.histBefore)[1], lastOp.arg)
    /\ ~IncludesOutOfRange(ChildrenOf(lastOp.histBefore)[1])
    /\ Len(ChildrenOf(psPam.psSavedHistograms)) = 2
    /\ ChildrenOf(psPam.psSavedHistograms)[2] = ChildrenOf(lastOp.histBefore)[1]

\* some child of the list satisfies the request q
Cached(psSavedHistograms, q) ==
    \E i \in 1..Len(ChildrenOf(psSavedHistograms)) :
        Satisfies(ChildrenOf(psSavedHistograms)[i], q)

\* the child describes what GetHistogram computed for the request q
IsComputedFor(psXMLHist, q) ==
    /\ HasKey(psXMLHist, q)
    /\ IncludesOutOfRange(psXMLHist) <=> (q.bIncludeOutOfRange # 0)
    /\ IsApproximate(psXMLHist) <=> (q.bApproxOK # 0)
    /\ CountsOf(psXMLHist, q.nBuckets) = Deref(q.native.panHistogram)

\* GetHistogram found no child for its request on a band that has a record
C14_Miss ==
    /\ lastOp.op = "GetHistogram"
    /\ psPam.alloc
    /\ ~Cached(lastOp.histBefore, lastOp.arg)

\* the computation was delegated and its failure came back, the list and the
\* dirty flag as they were
C14_FailureReturned ==
    /\ lastOp.delegated
    /\ lastOp.ret.eErr = lastOp.arg.native.eErr
    /\ psPam.psSavedHistograms = lastOp.histBefore
    /\ ~lastOp.marked

\* the computation was delegated and succeeded, one child describing it is
\* at the end of the list and the store is marked dirty
C14_Appended ==
    LET before == ChildrenOf(lastOp.histBefore)
        now == ChildrenOf(psPam.psSavedHistograms)
        q == lastOp.arg
    IN /\ lastOp.delegated
       /\ lastOp.ret = HistResult("CE_None", q.dfMin, q.dfMax, q.nBuckets, q.native.panHistogram)
       /\ ~IsNull(psPam.psSavedHistograms)
       /\ Len(now) = Len(before) + 1
       /\ SubSeq(now, 1, Len(before)) = before
       /\ IsComputedFor(now[Len(now)], q)
       /\ lastOp.marked
       /\ bDirty

\* the computation was delegated and succeeded, and nothing was saved
C14_NotSaved ==
    LET q == lastOp.arg
    IN /\ lastOp.delegated
       /\ lastOp.ret = HistResult("CE_None", q.dfMin, q.dfMax, q.nBuckets, q.native.panHistogram)
       /\ psPam.psSavedHistograms = lastOp.histBefore
       /\ ~lastOp.marked

\* C14 as stated: on a miss the computation of GDALRasterBand is used; when
\* it succeeds one descriptor of it is appended and the store is marked
\* dirty, when it fails the failure is returned and nothing changes.
C14_AsStated ==
    C14_Miss =>
        IF lastOp.arg.native.eErr = "CE_None" THEN C14_Appended ELSE C14_FailureReturned

\* PamHistogramToXMLTree() builds the description of the request
Encodable(q) == q.nBuckets <= (INT_MAX - 10) \div 12 /\ q.bMallocOK

\* C14: on a miss the computation of GDALRasterBand is used; when it fails
\* the failure is returned and nothing changes; when it succeeds and the
\* description can be built (not too many buckets, memory for the text) one
\* descriptor of it is appended and the store is marked dirty; when it
\* succeeds and the description cannot be built, success is returned and
\* nothing is saved.
C14_MissComputesAndSaves ==
    C14_Miss =>
        IF lastOp.arg.native.eErr # "CE_None"
        THEN C14_FailureReturned
        ELSE IF Encodable(lastOp.arg) THEN C14_Appended ELSE C14_NotSaved

\* GetHistogram has appended what it computed to a list that had a child
C14_Witness ==
    /\ C14_Miss
    /\ lastOp.arg.native.eErr = "CE_None"
    /\ Len(ChildrenOf(lastOp.histBefore)) = 1
    /\ Len(ChildrenOf(psPam.psSavedHistograms)) = 2
    /\ lastOp.marked

\* GetHistogram has created the list for what it computed
C14_WitnessCreated ==
    /\ C14_Miss
    /\ IsNull(lastOp.histBefore)
    /\ Len(ChildrenOf(psPam.psSavedHistograms)) = 1

\* the computation failed on a miss
C14_WitnessFailure ==
    /\ C14_Miss
    /\ lastOp.arg.native.eErr = "CE_Failure"
    /\ lastOp.ret.eErr = "CE_Failure"

\* the child GetHistogram found for its request, 0 if none
C15_Found ==
    PamFindMatchingHistogram(lastOp.histBefore, lastOp.arg.dfMin, lastOp.arg.dfMax, lastOp.arg.nBuckets, lastOp.arg.bIncludeOutOfRange, lastOp.arg.bApproxOK)

\* GetHistogram gave the counts of the child it found and left the rest
C15_HitReturnsStored ==
    /\ ~lastOp.delegated
    /\ lastOp.ret.eErr = "CE_None"
    /\ lastOp.ret.panHistogram = Ptr(CountsOf(ChildrenOf(lastOp.histBefore)[C15_Found], lastOp.arg.nBuckets))
    /\ psPam.psSavedHistograms = lastOp.histBefore
    /\ ~lastOp.marked

\* the same call again, GDALRasterBand computing what it computed before and
\* every allocation succeeding
C15_Repeat ==
    GetHistogram(Cur, lastOp.arg.dfMin, lastOp.arg.dfMax, lastOp.arg.nBuckets, lastOp.arg.bIncludeOutOfRange, lastOp.arg.bApproxOK, lastOp.arg.native, TRUE, TRUE, TRUE)

\* C15 as stated, for calls in which every allocation succeeds and the
\* buckets are not too many to describe: a GetHistogram that finds a child
\* for its request returns the stored counts with success, without the
\* computation of GDALRasterBand and without a change of the list or the
\* dirty flag; and after a successful GetHistogram the same call again
\* returns the same counts and leaves the length of the list unchanged.
C15_AsStated ==
    (/\ lastOp.op = "GetHistogram"
     /\ psPam.alloc
     /\ lastOp.arg.bCallocOK
     /\ Encodable(lastOp.arg)) =>
        /\ C15_Found # 0 => C15_HitReturnsStored
        /\ lastOp.ret.eErr = "CE_None" =>
              /\ C15_Repeat.ret.eErr = "CE_None"
              /\ C15_Repeat.ret.panHistogram = lastOp.ret.panHistogram
              /\ Len(ChildrenOf(C15_Repeat.b.psPam.psSavedHistograms)) = Len(ChildrenOf(psPam.psSavedHistograms))

\* the text of the counts of a child is shorter than its buckets need
TooShort(psXMLHist) ==
    Len(CPLGetXMLValue(psXMLHist, "HistCounts", <<>>)) < 2 * atoi(CPLGetXMLValue(psXMLHist, "BucketCount", <<"2">>)) - 1

\* On a list without a child of too short counts C15 holds as stated (every
\* allocation succeeding, the buckets not too many).
C15_WellFormedList ==
    (\A i \in 1..Len(ChildrenOf(lastOp.histBefore)) : ~TooShort(ChildrenOf(lastOp.histBefore)[i]))
        => C15_AsStated

\* C16 as stated: when the child GetHistogram finds for its request has a
\* text of counts shorter than 2 * bucket count - 1, an error is reported,
\* GetHistogram returns a failure and the list is as it was.
C16_AsStated ==
    (/\ lastOp.op = "GetHistogram"
     /\ psPam.alloc
     /\ C15_Found # 0
     /\ TooShort(ChildrenOf(lastOp.histBefore)[C15_Found])) =>
        /\ lastOp.err
        /\ lastOp.ret.eErr # "CE_None"
        /\ psPam.psSavedHistograms = lastOp.histBefore

\* The part of C16 that holds: the error is reported and the counts returned
\* are never those of the malformed child, the computation of GDALRasterBand
\* is used.
C16_ErrorReportedAndRecomputed ==
    (/\ lastOp.op = "GetHistogram"
     /\ psPam.alloc
     /\ C15_Found # 0
     /\ TooShort(ChildrenOf(lastOp.histBefore)[C15_Found])) =>
        /\ lastOp.err
        /\ lastOp.delegated
        /\ lastOp.ret.eErr = lastOp.arg.native.eErr

\* the positions of the HistItem elements of a list
HistItemsOf(psChild) ==
    {i \in 1..Len(psChild) :
        psChild[i].eType = "CXT_Element" /\ EQUAL(psChild[i].pszValue, "HistItem")}

\* the bucket count a HistItem is decoded with (2 when it names none)
BucketsOf(psXMLHist) == atoi(CPLGetXMLValue(psXMLHist, "BucketCount", <<"2">>))

\* the decoding of a HistItem succeeds: a positive bucket count that is not
\* too large, a text of counts that is long enough, memory for the counts
Decodable(psXMLHist, bCallocOK) ==
    /\ BucketsOf(psXMLHist) > 0
    /\ BucketsOf(psXMLHist) <= INT_MAX \div 2
    /\ ~TooShort(psXMLHist)
    /\ bCallocOK

C17_WitnessFailure ==
    /\ lastOp.op = "GetDefaultHistogram"
    /\ lastOp.ret.eErr = "CE_Failure"
    /\ lastOp.arg.native.eErr = "CE_None"

\* GetDefaultHistogram has failed on a HistItem of too many buckets
C17_WitnessTooLarge ==
    /\ lastOp.op = "GetDefaultHistogram"
    /\ lastOp.ret.eErr = "CE_Failure"
    /\ lastOp.ret.nBuckets > INT_MAX \div 2

\* GetDefaultHistogram has delegated on a list without a HistItem
C17_WitnessNoHistItem ==
    /\ lastOp.op = "GetDefaultHistogram"
    /\ lastOp.delegated
    /\ Len(ChildrenOf(lastOp.histBefore)) > 0

\* the nodes SerializeToXML() puts directly below the element for the band
\* as it is: the attribute band and the children
NodesWritten ==
    { name \in ChildNames \cup {"band"} :
        \/ name = "band" /\ nBand > 0
        \/ name = "Description" /\ sDescription # ""
        \/ name = "NoDataValue" /\ NoDataFlagsSet # {}
        \/ name = "UnitType" /\ ~IsNull(psPam.pszUnitType)
        \/ name = "Offset" /\ psPam.dfOffset # 0
        \/ name = "Scale" /\ psPam.dfScale # 1
        \/ name = "ColorInterp" /\ psPam.eColorInterp # "GCI_Undefined"
        \/ name = "CategoryNames" /\ ~IsNull(psPam.papszCategoryNames)
        \/ name = "ColorTable" /\ ~IsNull(psPam.poColorTable)
        \/ name \in {"Minimum", "Maximum"} /\ psPam.bHaveMinMax
        \/ name \in {"Mean", "StandardDeviation"} /\ psPam.bHaveStats
        \/ name = "Histograms" /\ ~IsNull(psPam.psSavedHistograms)
        \/ name = "GDALRasterAttributeTable" /\ psPam.poDefaultRAT \notin {NULL, Ptr([nRows |-> 0, nCols |-> 0])}
        \/ name = "Metadata" /\ ~IsNull(oMDMD) }

\* C18: SerializeToXML returns no tree when the band has no record; with a
\* record it returns no tree exactly when the tree it built has no or one
\* node directly below the element (the attribute band counted), and the
\* tree with exactly the nodes written in every other case.
C18_SerializeToXML ==
    lastOp.op = "SerializeToXML" =>
        IF ~psPam.alloc
        THEN IsNull(lastOp.ret)
        ELSE /\ IsNull(lastOp.ret) <=> Cardinality(NodesWritten) <= 1
             /\ ~IsNull(lastOp.ret) =>
                   \A name \in ChildNames \cup {"band"} :
                       ~IsNull(Deref(lastOp.ret)[name]) <=> name \in NodesWritten

\* SerializeToXML has returned no tree for a band whose record holds one
\* thing to write
C18_Witness ==
    /\ lastOp.op = "SerializeToXML"
    /\ psPam.alloc
    /\ Cardinality(NodesWritten) = 1
    /\ IsNull(lastOp.ret)

\* SerializeToXML has returned a tree of the attribute and one child
C18_WitnessTwo ==
    /\ lastOp.op = "SerializeToXML"
    /\ NodesWritten = {"band", "Description"}
    /\ ~IsNull(lastOp.ret)

\* SerializeToXML has returned no tree for a band without a record
C18_WitnessNoRecord ==
    /\ lastOp.op = "SerializeToXML"
    /\ ~psPam.alloc
    /\ IsNull(lastOp.ret)

\* the fields of a record that are set, with the flags that say so
SetFields(p) ==
    [ nodata     |-> IF p.bNoDataValueSet THEN <<"double", p.dfNoDataValue>>
                     ELSE IF p.bNoDataValueSetAsInt64 THEN <<"int64", p.nNoDataValueInt64>>
                     ELSE IF p.bNoDataValueSetAsUInt64 THEN <<"uint64", p.nNoDataValueUInt64>>
                     ELSE <<"none", 0>>,
      bOffsetSet |-> p.bOffsetSet,
      dfOffset   |-> p.dfOffset,
      bScaleSet  |-> p.bScaleSet,
      dfScale    |-> p.dfScale,
      unit       |-> p.pszUnitType,
      interp     |-> p.eColorInterp,
      names      |-> p.papszCategoryNames,
      table      |-> p.poColorTable,
      rat        |-> p.poDefaultRAT,
      minmax     |-> IF p.bHaveMinMax THEN <<p.dfMin, p.dfMax>> ELSE <<>>,
      stats      |-> IF p.bHaveStats THEN <<p.dfMean, p.dfStdDev>> ELSE <<>>,
      histograms |-> p.psSavedHistograms ]

\* C19 as stated: XMLInit of what SerializeToXML wrote, on a band as
\* constructed of the same pixel type, gives a record equal to the one
\* written in all set fields, the flags of offset and scale, the variant of
\* the nodata value and the colour interpretation included.
C19_AsStated ==
    lastOp.op = "Reopen" => SetFields(psPam) = SetFields(lastOp.arg.psPam)

\* C19: what XMLInit of what SerializeToXML wrote does give back: the
\* description, the unit, the category names, the colour table, minimum and
\* maximum, mean and standard deviation, the histogram list, and a nodata
\* value whenever one was set.
C19_Kept ==
    lastOp.op = "Reopen" =>
        LET was == SetFields(lastOp.arg.psPam)
            is  == SetFields(psPam)
        IN /\ sDescription = lastOp.arg.sDescription
           /\ is.unit = was.unit
           /\ is.names = was.names
           /\ is.table = was.table
           /\ is.minmax = was.minmax
           /\ is.stats = was.stats
           /\ is.histograms = was.histograms
           /\ (is.nodata[1] = "none") <=> (was.nodata[1] = "none")

\* an offset written with sixteen digits is read as another offset
C19_OffsetChanged ==
    /\ lastOp.op = "Reopen"
    /\ lastOp.arg.psPam.bOffsetSet /\ lastOp.arg.psPam.bScaleSet
    /\ psPam.bOffsetSet /\ psPam.bScaleSet
    /\ psPam.dfOffset # lastOp.arg.psPam.dfOffset

\* the flag of an offset that was set to 0 is lost
C19_OffsetFlagLost ==
    /\ lastOp.op = "Reopen"
    /\ lastOp.arg.psPam.bOffsetSet
    /\ ~psPam.bOffsetSet

\* the flag of an offset that was never set is raised by the scale
C19_OffsetFlagRaised ==
    /\ lastOp.op = "Reopen"
    /\ ~lastOp.arg.psPam.bOffsetSet
    /\ psPam.bOffsetSet

\* the variant of the nodata value is another
C19_VariantChanged ==
    /\ lastOp.op = "Reopen"
    /\ SetFields(psPam).nodata[1] # SetFields(lastOp.arg.psPam).nodata[1]

\* the colour interpretation given after the colour table is replaced
C19_InterpChanged ==
    /\ lastOp.op = "Reopen"
    /\ psPam.eColorInterp # lastOp.arg.psPam.eColorInterp

\* every set field is read as it was written
C19_WitnessSame ==
    /\ lastOp.op = "Reopen"
    /\ SetFields(psPam) = SetFields(lastOp.arg.psPam)
    /\ psPam.bNoDataValueSet
    /\ psPam.bScaleSet

\* the double nodata value d is not a whole number, or its text of fourteen
\* digits is read as another double (NaN is not a whole number)
NeedsHex(d) ==
    \/ CPLIsNan(d)
    \/ ~IsWhole(d)
    \/ CPLAtof(FormatE14(d)) # d

\* SerializeToXML has returned a tree for a band whose nodata value is of the
\* double variant
WroteDoubleNoData ==
    /\ lastOp.op = "SerializeToXML"
    /\ ~IsNull(lastOp.ret)
    /\ psPam.bNoDataValueSet

\* XMLInit has read, into a record, a tree with a nodata value and eight
\* bytes of hex
ReadHexNoData ==
    /\ lastOp.op = "XMLInit"
    /\ psPam.alloc
    /\ ~IsNull(lastOp.arg.psTree.NoDataValue)
    /\ ~IsNull(lastOp.arg.psTree.le_hex_equiv)
    /\ Len(Deref(lastOp.arg.psTree.le_hex_equiv)) = 16

\* the band has read the tree it wrote, with the hex of a nodata value
ReopenedWithHex ==
    /\ lastOp.op = "Reopen"
    /\ ~IsNull(Deref(lastOp.arg.psTree).le_hex_equiv)

\* C20: for the double variant SerializeToXML writes, beside the text of the
\* nodata value, the sixteen hex digits of its eight bytes in little-endian
\* order exactly when the value is not a whole number or is not equal to the
\* value read from its text of fourteen digits (NaN included), and no hex for
\* the other variants; XMLInit of a tree with eight bytes of hex stores the
\* double of those bytes whatever the text is; so the band that reads what
\* it wrote with hex has the nodata value of the same 64 bits.
C20_HexOfNoData ==
    /\ WroteDoubleNoData =>
          /\ ~IsNull(Deref(lastOp.ret).NoDataValue)
          /\ ~IsNull(Deref(lastOp.ret).le_hex_equiv) <=> NeedsHex(psPam.dfNoDataValue)
          /\ ~IsNull(Deref(lastOp.ret).le_hex_equiv) =>
                Deref(Deref(lastOp.ret).le_hex_equiv) = LittleEndianHex(psPam.dfNoDataValue)
    /\ (lastOp.op = "SerializeToXML" /\ ~IsNull(lastOp.ret) /\ ~psPam.bNoDataValueSet) =>
          IsNull(Deref(lastOp.ret).le_hex_equiv)
    /\ ReadHexNoData =>
          /\ NoDataFlagsSet = {"double"}
          /\ LittleEndianHex(psPam.dfNoDataValue) = Deref(lastOp.arg.psTree.le_hex_equiv)
    /\ ReopenedWithHex =>
          /\ NoDataFlagsSet = {"double"}
          /\ lastOp.arg.psPam.bNoDataValueSet
          /\ LittleEndianHex(psPam.dfNoDataValue) = LittleEndianHex(lastOp.arg.psPam.dfNoDataValue)
          /\ psPam.dfNoDataValue = lastOp.arg.psPam.dfNoDataValue

\* SerializeToXML has written hex for a whole number that its text of
\* fourteen digits does not give
C20_Witness ==
    /\ WroteDoubleNoData
    /\ IsWhole(psPam.dfNoDataValue)
    /\ ~CPLIsNan(psPam.dfNoDataValue)
    /\ ~IsNull(Deref(lastOp.ret).le_hex_equiv)

\* SerializeToXML has written hex for a fraction its text gives exactly
C20_WitnessFraction ==
    /\ WroteDoubleNoData
    /\ psPam.dfNoDataValue = DBL_HALF
    /\ CPLAtof(FormatE14(DBL_HALF)) = DBL_HALF
    /\ ~IsNull(Deref(lastOp.ret).le_hex_equiv)

\* SerializeToXML has written hex for NaN
C20_WitnessNaN ==
    /\ WroteDoubleNoData
    /\ CPLIsNan(psPam.dfNoDataValue)
    /\ Deref(Deref(lastOp.ret).NoDataValue) = <<"n", "a", "n">>
    /\ ~IsNull(Deref(lastOp.ret).le_hex_equiv)

\* SerializeToXML has written no hex for a whole number
C20_WitnessNoHex ==
    /\ WroteDoubleNoData
    /\ IsNull(Deref(lastOp.ret).le_hex_equiv)

\* XMLInit has stored the double of the hex, which is not the double of the
\* text
C20_WitnessRead ==
    /\ ReadHexNoData
    /\ psPam.dfNoDataValue # CPLAtof(Deref(lastOp.arg.psTree.NoDataValue))

\* the band has read back a nodata value that its text does not give
C20_WitnessReopened ==
    /\ ReopenedWithHex
    /\ psPam.dfNoDataValue # CPLAtof(Deref(Deref(lastOp.arg.psTree).NoDataValue))
    /\ ~CPLIsNan(psPam.dfNoDataValue)

\* XMLInit has read a tree with four bytes of hex: the text is stored
C20_WitnessFourBytes ==
    /\ lastOp.op = "XMLInit"
    /\ psPam.alloc
    /\ ~IsNull(lastOp.arg.psTree.le_hex_equiv)
    /\ Len(Deref(lastOp.arg.psTree.le_hex_equiv)) = 8
    /\ psPam.dfNoDataValue = CPLAtof(Deref(lastOp.arg.psTree.NoDataValue))

(***************************************************************************)
(* XMLInit().                                                              *)
(***************************************************************************)
\* the nodata value a record holds: its three flags and its three values
NoDataOf(p) ==
    <<p.bNoDataValueSet, p.bNoDataValueSetAsInt64, p.bNoDataValueSetAsUInt64,
      p.dfNoDataValue, p.nNoDataValueInt64, p.nNoDataValueUInt64>>

\* a record that holds the double d alone, the int64 n alone, the uint64 n alone
HoldsDouble(p, d) ==
    NoDataOf(p) = <<TRUE, FALSE, FALSE, d, GDAL_PAM_DEFAULT_NODATA_VALUE_INT64,
                    GDAL_PAM_DEFAULT_NODATA_VALUE_UINT64>>

HoldsInt64(p, n) ==
    NoDataOf(p) = <<FALSE, TRUE, FALSE, GDAL_PAM_DEFAULT_NODATA_VALUE, n,
                    GDAL_PAM_DEFAULT_NODATA_VALUE_UINT64>>

HoldsUInt64(p, n) ==
    NoDataOf(p) = <<FALSE, FALSE, TRUE, GDAL_PAM_DEFAULT_NODATA_VALUE,
                    GDAL_PAM_DEFAULT_NODATA_VALUE_INT64, n>>

\* The record XMLInit() stores into, seen from a step of XMLInit: the record
\* the band had, unless it had none or PamInitialize() replaced an unlinked
\* one by a new record linked to the store.
RecordRead ==
    IF psPam.alloc /\ psPam.poParentDS = psPam'.poParentDS
    THEN psPam
    ELSE [DefaultPam EXCEPT !.poParentDS = psPam'.poParentDS]

\* a step of XMLInit that leaves the band with a record
ReadsTree == lastOp'.op = "XMLInit" /\ psPam'.alloc

\* C21: XMLInit of a tree with a NoDataValue element stores the double alone
\* when le_hex_equiv is present, whatever the pixel type (the value of the
\* hex when it is of eight bytes, else of the text); without le_hex_equiv it
\* stores the int64 alone on an Int64 band, the uint64 alone on a UInt64 band
\* and the double of the text alone on any other band.  Without a NoDataValue
\* element the nodata value of the record is left as it is.
C21_NoDataVariant ==
    [][ReadsTree =>
          LET psTree == lastOp'.arg.psTree IN
          IF IsNull(psTree.NoDataValue)
          THEN NoDataOf(psPam') = NoDataOf(RecordRead)
          ELSE IF ~IsNull(psTree.le_hex_equiv)
          THEN HoldsDouble(psPam', IF HexBytes(Deref(psTree.le_hex_equiv)) = 8
                                   THEN DoubleOfHex(Deref(psTree.le_hex_equiv))
                                   ELSE CPLAtof(Deref(psTree.NoDataValue)))
          ELSE CASE eDataType = "GDT_Int64" ->
                        HoldsInt64(psPam', strtoll(Deref(psTree.NoDataValue)))
                 [] eDataType = "GDT_UInt64" ->
                        HoldsUInt64(psPam', strtoull(Deref(psTree.NoDataValue)))
                 [] OTHER -> HoldsDouble(psPam', CPLAtof(Deref(psTree.NoDataValue)))]_vars

\* an Int64 band that held an int64 has read the hex of 0.5 and holds the double
C21_Witness ==
    /\ lastOp.op = "XMLInit"
    /\ eDataType = "GDT_Int64"
    /\ lastOp.hadPam
    /\ ~IsNull(lastOp.arg.psTree.le_hex_equiv)
    /\ HexBytes(Deref(lastOp.arg.psTree.le_hex_equiv)) = 8
    /\ HoldsDouble(psPam, DBL_HALF)

\* a UInt64 band has read hex of four bytes and holds the double of the text
C21_WitnessText ==
    /\ lastOp.op = "XMLInit"
    /\ eDataType = "GDT_UInt64"
    /\ ~IsNull(lastOp.arg.psTree.le_hex_equiv)
    /\ HexBytes(Deref(lastOp.arg.psTree.le_hex_equiv)) = 4
    /\ HoldsDouble(psPam, MaxDouble)

\* bands of the three pixel types have read a text without hex
C21_WitnessInt64 ==
    /\ lastOp.op = "XMLInit"
    /\ eDataType = "GDT_Int64"
    /\ ~IsNull(lastOp.arg.psTree.NoDataValue)
    /\ IsNull(lastOp.arg.psTree.le_hex_equiv)
    /\ psPam.bNoDataValueSetAsInt64

C21_WitnessUInt64 ==
    /\ lastOp.op = "XMLInit"
    /\ eDataType = "GDT_UInt64"
    /\ ~IsNull(lastOp.arg.psTree.NoDataValue)
    /\ IsNull(lastOp.arg.psTree.le_hex_equiv)
    /\ HoldsUInt64(psPam, MaxInt + 1)

C21_WitnessByte ==
    /\ lastOp.op = "XMLInit"
    /\ eDataType = "GDT_Byte"
    /\ ~IsNull(lastOp.arg.psTree.NoDataValue)
    /\ IsNull(lastOp.arg.psTree.le_hex_equiv)
    /\ HoldsDouble(psPam, MaxInt + 1)

\* a band that held an int64 has read a tree without NoDataValue and holds it
C21_WitnessKept ==
    /\ lastOp.op = "XMLInit"
    /\ lastOp.hadPam
    /\ IsNull(lastOp.arg.psTree.NoDataValue)
    /\ HoldsInt64(psPam, 0)

\* offset and scale of a record with their flags
ScalingOf(p) == <<p.dfOffset, p.dfScale, p.bOffsetSet, p.bScaleSet>>

\* C22: XMLInit of a tree with a Scale element and no Offset element stores
\* the offset 0.0 and the scale of the element, of a tree with an Offset
\* element and no Scale element the offset of the element and the scale 1.0,
\* of a tree with both the two of them, each time with both flags true; a
\* tree with neither leaves offset, scale and the two flags as they are.
C22_OffsetAndScale ==
    [][ReadsTree =>
          LET psTree == lastOp'.arg.psTree IN
          IF IsNull(psTree.Offset) /\ IsNull(psTree.Scale)
          THEN ScalingOf(psPam') = ScalingOf(RecordRead)
          ELSE ScalingOf(psPam') =
                   << IF IsNull(psTree.Offset) THEN 0 ELSE CPLAtof(Deref(psTree.Offset)),
                      IF IsNull(psTree.Scale) THEN 1 ELSE CPLAtof(Deref(psTree.Scale)),
                      TRUE, TRUE >>]_vars

\* a band that held the offset 0.5 has read a tree with the scale 0.3 alone:
\* the offset is 0.0, the scale 0.3, both are set
C22_Witness ==
    /\ lastOp.op = "XMLInit"
    /\ lastOp.hadPam
    /\ lastOp.changed
    /\ IsNull(lastOp.arg.psTree.Offset)
    /\ ~IsNull(lastOp.arg.psTree.Scale)
    /\ ~IsNull(psPam.pszUnitType)
    /\ ScalingOf(psPam) = <<0, DBL_0_3, TRUE, TRUE>>

\* a band has read the offset 0.3 alone into a record that held a scale
C22_WitnessOffset ==
    /\ lastOp.op = "XMLInit"
    /\ IsNull(lastOp.arg.psTree.Scale)
    /\ ~IsNull(psPam.poColorTable)
    /\ ScalingOf(psPam) = <<DBL_0_3, 1, TRUE, TRUE>>

\* a band that held an offset has read a tree with neither
C22_WitnessNeither ==
    /\ lastOp.op = "XMLInit"
    /\ IsNull(lastOp.arg.psTree.Scale)
    /\ IsNull(lastOp.arg.psTree.Offset)
    /\ ScalingOf(psPam) = <<DBL_HALF, 1, TRUE, FALSE>>

\* a child XMLInit() takes a name from: a Category element without a child
\* or whose first child is a text
IsCategory(psEntry) ==
    /\ psEntry.eType = "CXT_Element"
    /\ psEntry.pszValue = "Category"
    /\ (IsNull(psEntry.psChild) \/ Deref(psEntry.psChild).eType = "CXT_Text")

\* the names of the children of that kind, in their order; no list for none
NamesRead(psEntries) ==
    LET kept == SelectSeq(psEntries, IsCategory)
    IN IF kept = <<>>
       THEN NULL
       ELSE Ptr([i \in 1..Len(kept) |->
                    IF IsNull(kept[i].psChild) THEN "" ELSE Deref(kept[i].psChild).pszValue])

C23_WitnessSkipped ==
    /\ lastOp.op = "XMLInit"
    /\ psPam.alloc
    /\ ~IsNull(lastOp.arg.psTree.CategoryNames)
    /\ Len(Deref(lastOp.arg.psTree.CategoryNames)) = 5
    /\ psPam.papszCategoryNames = Ptr(<<"", "water">>)

\* a Category element without a child gave the empty name
C23_WitnessNoChild ==
    /\ lastOp.op = "XMLInit"
    /\ psPam.alloc
    /\ ~IsNull(lastOp.arg.psTree.CategoryNames)
    /\ Len(Deref(lastOp.arg.psTree.CategoryNames)) = 2
    /\ IsNull(Deref(lastOp.arg.psTree.CategoryNames)[1].psChild)
    /\ psPam.papszCategoryNames = Ptr(<<"", "water">>)

\* no child gave a name: the names the band held are gone
C23_WitnessNone ==
    /\ lastOp.op = "XMLInit"
    /\ lastOp.hadPam
    /\ lastOp.changed
    /\ ~IsNull(lastOp.arg.psTree.CategoryNames)
    /\ ~IsNull(psPam.pszUnitType)
    /\ IsNull(psPam.papszCategoryNames)

\* a step of XMLInit that reads the tree the step before it has read
ReadsAgain == lastOp.op = "XMLInit" /\ lastOp'.op = "XMLInit" /\ lastOp'.arg = lastOp.arg

Clones == lastOp'.op = "CloneInfo"
SrcBand == lastOp'.arg.poSrcBand
CloneFlags == lastOp'.arg.nCloneFlags
OnlyIfMissing == "GCIF_ONLY_IF_MISSING" \in CloneFlags

\* a step of CloneInfo with GCIF_UNITTYPE raised on a band whose record holds
\* the unit "m", from a band whose unit is "ft"
ClonesFeetOverMetres ==
    /\ Clones
    /\ "GCIF_UNITTYPE" \in CloneFlags
    /\ psPam.alloc
    /\ GetUnitType(Cur).ret = "m"
    /\ SrcBand.pszUnitType = "ft"

\* C25: CloneInfo with GCIF_UNITTYPE on a band whose unit is "m", from a band
\* whose unit is "ft", leaves the unit "m" when GCIF_ONLY_IF_MISSING is
\* raised and makes it "ft" when it is not.
C25_AsStated ==
    [][ClonesFeetOverMetres
          => GetUnitType(Cur').ret = (IF OnlyIfMissing THEN "m" ELSE "ft")]_vars

\* what the code does for C25: the unit becomes "ft" with the flag and
\* without it
C25_Overwrites == [][ClonesFeetOverMetres => GetUnitType(Cur').ret = "ft"]_vars

\* CloneInfo with GCIF_UNITTYPE and GCIF_ONLY_IF_MISSING has replaced the
\* unit of the record by "ft"
C25_Overwritten ==
    /\ lastOp.op = "CloneInfo"
    /\ lastOp.hadPam
    /\ lastOp.arg.nCloneFlags = {"GCIF_UNITTYPE", "GCIF_ONLY_IF_MISSING"}
    /\ lastOp.arg.poSrcBand.pszUnitType = "ft"
    /\ lastOp.changed
    /\ psPam.pszUnitType = Ptr("ft")

\* the record CloneInfo works on, seen from a step of CloneInfo: the record
\* of the band, or the one PamInitialize() makes where the step leaves the
\* band with a record
Acceptor == IF psPam'.alloc THEN PamInitialize(Cur, TRUE).psPam ELSE psPam

\* what CloneInfo looks at: a flag is raised and poSrcBand has a value of its kind
TakesDescription == "GCIF_BAND_DESCRIPTION" \in CloneFlags /\ SrcBand.sDescription # ""
TakesNoData == "GCIF_NODATA" \in CloneFlags /\ SrcBand.NoData.ok
TakesCategoryNames == "GCIF_CATEGORYNAMES" \in CloneFlags /\ ~IsNull(SrcBand.papszCategoryNames)
TakesOffset == "GCIF_SCALEOFFSET" \in CloneFlags /\ SrcBand.Offset.ok
TakesScale == "GCIF_SCALEOFFSET" \in CloneFlags /\ SrcBand.Scale.ok
TakesUnitType == "GCIF_UNITTYPE" \in CloneFlags /\ SrcBand.pszUnitType # ""
TakesColorInterp == "GCIF_COLORINTERP" \in CloneFlags /\ SrcBand.eColorInterp # "GCI_Undefined"
TakesColorTable == "GCIF_COLORTABLE" \in CloneFlags /\ ~IsNull(SrcBand.poColorTable)
TakesRAT ==
    /\ "GCIF_RAT" \in CloneFlags
    /\ ~IsNull(SrcBand.poRAT)
    /\ (Deref(SrcBand.poRAT).nRows # 0 \/ Deref(SrcBand.poRAT).nCols # 0)

\* after the step the record holds the nodata value of poSrcBand, in the
\* variant of the pixel type of poSrcBand
NoDataAsSrcBand ==
    CASE SrcBand.eDataType = "GDT_Int64" ->
             psPam'.bNoDataValueSetAsInt64 /\ psPam'.nNoDataValueInt64 = SrcBand.NoData.ret
      [] SrcBand.eDataType = "GDT_UInt64" ->
             psPam'.bNoDataValueSetAsUInt64 /\ psPam'.nNoDataValueUInt64 = SrcBand.NoData.ret
      [] OTHER ->
             /\ GetNoDataValue(Cur').ok
             /\ \/ CPLIsNan(GetNoDataValue(Cur').ret) /\ CPLIsNan(SrcBand.NoData.ret)
                \/ DblEQ(GetNoDataValue(Cur').ret, SrcBand.NoData.ret)

\* after the step the band holds, of every kind CloneInfo looked at, the
\* value of poSrcBand, and offset and scale are flagged as set
AllAsSrcBand ==
    /\ TakesDescription => sDescription' = SrcBand.sDescription
    /\ TakesNoData => NoDataAsSrcBand
    /\ TakesCategoryNames => psPam'.papszCategoryNames = SrcBand.papszCategoryNames
    /\ TakesOffset => psPam'.dfOffset = SrcBand.Offset.ret /\ psPam'.bOffsetSet
    /\ TakesScale => psPam'.dfScale = SrcBand.Scale.ret /\ psPam'.bScaleSet
    /\ TakesUnitType => psPam'.pszUnitType = Ptr(SrcBand.pszUnitType)
    /\ TakesColorInterp => psPam'.eColorInterp = SrcBand.eColorInterp
    /\ TakesColorTable => psPam'.poColorTable = SrcBand.poColorTable
    /\ TakesRAT => psPam'.poDefaultRAT = SrcBand.poRAT

\* C26 as stated: with GCIF_ONLY_IF_MISSING the band ends with the value of
\* poSrcBand, and its flag for offset and scale, in every kind CloneInfo
\* looked at.
C26_AsStated == [][Clones /\ OnlyIfMissing /\ psPam'.alloc => AllAsSrcBand]_vars

\* after a step with GCIF_ONLY_IF_MISSING: description, category names,
\* colour table and attribute table are those of poSrcBand where the band had
\* none and its own otherwise
MissingFilled ==
    /\ TakesDescription
         => sDescription' = (IF sDescription = "" THEN SrcBand.sDescription ELSE sDescription)
    /\ TakesCategoryNames
         => psPam'.papszCategoryNames = (IF IsNull(Acceptor.papszCategoryNames)
                                         THEN SrcBand.papszCategoryNames
                                         ELSE Acceptor.papszCategoryNames)
    /\ TakesColorTable
         => psPam'.poColorTable = (IF IsNull(Acceptor.poColorTable)
                                   THEN SrcBand.poColorTable
                                   ELSE Acceptor.poColorTable)
    /\ TakesRAT
         => psPam'.poDefaultRAT = (IF IsNull(Acceptor.poDefaultRAT)
                                   THEN SrcBand.poRAT
                                   ELSE Acceptor.poDefaultRAT)

\* after a step with GCIF_ONLY_IF_MISSING: nodata value, offset, scale, unit
\* type and colour interpretation are as those of poSrcBand; offset and scale
\* are flagged as set where their value had to change and as before
\* otherwise, the unit type keeps its spelling where it differs by case
\* alone, and the colour interpretation is GCI_PaletteIndex where the colour
\* table was taken
DifferentReplaced ==
    /\ TakesNoData => NoDataAsSrcBand
    /\ TakesOffset
         => /\ psPam'.dfOffset = SrcBand.Offset.ret
            /\ psPam'.bOffsetSet
                 = (Acceptor.bOffsetSet \/ DblNE(Acceptor.dfOffset, SrcBand.Offset.ret))
    /\ TakesScale
         => /\ psPam'.dfScale = SrcBand.Scale.ret
            /\ psPam'.bScaleSet
                 = (Acceptor.bScaleSet \/ DblNE(Acceptor.dfScale, SrcBand.Scale.ret))
    /\ TakesUnitType
         => psPam'.pszUnitType
              = (IF ~IsNull(Acceptor.pszUnitType)
                    /\ EQUAL(Deref(Acceptor.pszUnitType), SrcBand.pszUnitType)
                 THEN Acceptor.pszUnitType
                 ELSE Ptr(SrcBand.pszUnitType))
    /\ TakesColorInterp
         => psPam'.eColorInterp
              = (IF TakesColorTable /\ IsNull(Acceptor.poColorTable)
                 THEN "GCI_PaletteIndex"
                 ELSE SrcBand.eColorInterp)

\* C26: CloneInfo with GCIF_ONLY_IF_MISSING that leaves the band with a
\* record: in every kind whose flag is raised and of which poSrcBand has a
\* value, description, category names, colour table and attribute table are
\* taken only where the band has none and kept otherwise; nodata value,
\* offset, scale, unit type and colour interpretation are taken where they
\* differ from those of the band, the unit type compared without regard to
\* case, offset and scale compared by value alone so that the flag of an
\* equal value stays as it was; taking the colour table makes the colour
\* interpretation GCI_PaletteIndex.
C26_OnlyIfMissing ==
    [][Clones /\ OnlyIfMissing /\ psPam'.alloc => MissingFilled /\ DifferentReplaced]_vars

\* CloneInfo with every flag raised has taken from the band that has all
\* values into the band that had other values of every kind: description,
\* category names, colour table and attribute table are kept, the others taken
C26_Witness ==
    /\ lastOp.op = "CloneInfo"
    /\ lastOp.arg.nCloneFlags = CloneCategories \cup {"GCIF_ONLY_IF_MISSING"}
    /\ lastOp.arg.poSrcBand = FullSrcBand
    /\ lastOp.hadPam
    /\ lastOp.changed
    /\ sDescription = "elevation"
    /\ psPam.papszCategoryNames = TheCategoryNames
    /\ psPam.poColorTable = TheColorTable
    /\ psPam.pszUnitType = Ptr("ft")
    /\ psPam.dfOffset = DBL_HALF
    /\ psPam.eColorInterp = "GCI_GrayIndex"

\* CloneInfo with GCIF_SCALEOFFSET and GCIF_ONLY_IF_MISSING on a band without
\* offset and scale, from a band whose offset 0.0 and scale 1.0 are set: the
\* band still has them not set
C26_WitnessFlagKept ==
    /\ lastOp.op = "CloneInfo"
    /\ lastOp.arg.nCloneFlags = {"GCIF_SCALEOFFSET", "GCIF_ONLY_IF_MISSING"}
    /\ lastOp.arg.poSrcBand.Offset = [ret |-> 0, ok |-> TRUE]
    /\ psPam.alloc
    /\ ~psPam.bOffsetSet
    /\ ~psPam.bScaleSet

\* CloneInfo with GCIF_ONLY_IF_MISSING has filled a band that had nothing
C26_WitnessFilled ==
    /\ lastOp.op = "CloneInfo"
    /\ lastOp.arg.nCloneFlags = CloneCategories \cup {"GCIF_ONLY_IF_MISSING"}
    /\ lastOp.arg.poSrcBand = FullSrcBand
    /\ ~lastOp.hadPam
    /\ sDescription = "depth"
    /\ psPam.papszCategoryNames = FullSrcBand.papszCategoryNames
    /\ psPam.poColorTable = FullSrcBand.poColorTable
    /\ psPam.poDefaultRAT = FullSrcBand.poRAT
    /\ psPam.eColorInterp = "GCI_PaletteIndex"

\* after the step the band holds, of every kind CloneInfo did not look at or
\* poSrcBand has no value of, what it held
OthersKept ==
    /\ ~TakesDescription => sDescription' = sDescription
    /\ ~TakesNoData => NoDataOf(psPam') = NoDataOf(Acceptor)
    /\ ~TakesCategoryNames => psPam'.papszCategoryNames = Acceptor.papszCategoryNames
    /\ ~TakesOffset => /\ psPam'.dfOffset = Acceptor.dfOffset
                       /\ psPam'.bOffsetSet = Acceptor.bOffsetSet
    /\ ~TakesScale => /\ psPam'.dfScale = Acceptor.dfScale
                      /\ psPam'.bScaleSet = Acceptor.bScaleSet
    /\ ~TakesUnitType => psPam'.pszUnitType = Acceptor.pszUnitType
    /\ ~TakesColorTable => psPam'.poColorTable = Acceptor.poColorTable
    /\ ~TakesRAT => psPam'.poDefaultRAT = Acceptor.poDefaultRAT

\* after the step the band holds what it held, of every kind whose flag is
\* raised and of which poSrcBand has no value
SkippedKept ==
    /\ "GCIF_BAND_DESCRIPTION" \in CloneFlags /\ ~TakesDescription
         => sDescription' = sDescription
    /\ "GCIF_NODATA" \in CloneFlags /\ ~TakesNoData
         => NoDataOf(psPam') = NoDataOf(Acceptor)
    /\ "GCIF_CATEGORYNAMES" \in CloneFlags /\ ~TakesCategoryNames
         => psPam'.papszCategoryNames = Acceptor.papszCategoryNames
    /\ "GCIF_SCALEOFFSET" \in CloneFlags /\ ~TakesOffset
         => psPam'.dfOffset = Acceptor.dfOffset /\ psPam'.bOffsetSet = Acceptor.bOffsetSet
    /\ "GCIF_SCALEOFFSET" \in CloneFlags /\ ~TakesScale
         => psPam'.dfScale = Acceptor.dfScale /\ psPam'.bScaleSet = Acceptor.bScaleSet
    /\ "GCIF_UNITTYPE" \in CloneFlags /\ ~TakesUnitType
         => psPam'.pszUnitType = Acceptor.pszUnitType
    /\ "GCIF_COLORINTERP" \in CloneFlags /\ ~TakesColorInterp
         => psPam'.eColorInterp = Acceptor.eColorInterp
    /\ "GCIF_COLORTABLE" \in CloneFlags /\ ~TakesColorTable
         => psPam'.poColorTable = Acceptor.poColorTable
    /\ "GCIF_RAT" \in CloneFlags /\ ~TakesRAT
         => psPam'.poDefaultRAT = Acceptor.poDefaultRAT

\* C27 as stated: without GCIF_ONLY_IF_MISSING the band ends with the value
\* of poSrcBand in every kind whose flag is raised and of which poSrcBand has
\* a value, and with its own value in every kind of which poSrcBand has none.
C27_AsStated == [][Clones /\ ~OnlyIfMissing => AllAsSrcBand /\ SkippedKept]_vars

\* C27 as stated, for the steps alone that leave the band with a record
C27_AsStatedWithRecord ==
    [][Clones /\ ~OnlyIfMissing /\ psPam'.alloc => AllAsSrcBand /\ SkippedKept]_vars

\* C27: CloneInfo without GCIF_ONLY_IF_MISSING that leaves the band with a
\* record: in every kind whose flag is raised and of which poSrcBand has a
\* value the band ends with the value of poSrcBand, offset and scale flagged
\* as set; in every other kind it keeps what it held; but where the colour
\* table is taken the colour interpretation ends as GCI_PaletteIndex,
\* whatever that of poSrcBand or of the band is.
C27_Always ==
    [][Clones /\ ~OnlyIfMissing /\ psPam'.alloc
          => /\ TakesDescription => sDescription' = SrcBand.sDescription
             /\ TakesNoData => NoDataAsSrcBand
             /\ TakesCategoryNames => psPam'.papszCategoryNames = SrcBand.papszCategoryNames
             /\ TakesOffset => psPam'.dfOffset = SrcBand.Offset.ret /\ psPam'.bOffsetSet
             /\ TakesScale => psPam'.dfScale = SrcBand.Scale.ret /\ psPam'.bScaleSet
             /\ TakesUnitType => psPam'.pszUnitType = Ptr(SrcBand.pszUnitType)
             /\ TakesColorTable => psPam'.poColorTable = SrcBand.poColorTable
             /\ TakesRAT => psPam'.poDefaultRAT = SrcBand.poRAT
             /\ OthersKept
             /\ psPam'.eColorInterp
                  = (CASE TakesColorTable -> "GCI_PaletteIndex"
                       [] TakesColorInterp /\ ~TakesColorTable -> SrcBand.eColorInterp
                       [] OTHER -> Acceptor.eColorInterp)]_vars

\* CloneInfo with every flag but GCIF_ONLY_IF_MISSING raised has taken
\* everything from the band that has all values into a band that had other
\* values of every kind; the colour interpretation is not the GCI_GrayIndex
\* of that band
C27_Witness ==
    /\ lastOp.op = "CloneInfo"
    /\ lastOp.arg.nCloneFlags = CloneCategories
    /\ lastOp.arg.poSrcBand = FullSrcBand
    /\ lastOp.hadPam
    /\ lastOp.changed
    /\ sDescription = "depth"
    /\ oMDMD = FullSrcBand.papszMetadata
    /\ psPam.papszCategoryNames = FullSrcBand.papszCategoryNames
    /\ psPam.pszUnitType = Ptr("ft")
    /\ psPam.poColorTable = FullSrcBand.poColorTable
    /\ psPam.poDefaultRAT = FullSrcBand.poRAT
    /\ psPam.eColorInterp = "GCI_PaletteIndex"

\* CloneInfo with every flag but GCIF_ONLY_IF_MISSING raised, from the band
\* that has no value, has left the band that has values as it was
C27_WitnessSkipped ==
    /\ lastOp.op = "CloneInfo"
    /\ lastOp.arg.nCloneFlags = CloneCategories
    /\ lastOp.arg.poSrcBand = EmptySrcBand
    /\ lastOp.hadPam
    /\ ~lastOp.changed
    /\ sDescription = "elevation"
    /\ psPam.pszUnitType = Ptr("m")

\* CloneInfo with GCIF_COLORINTERP alone has taken GCI_GrayIndex
C27_WitnessInterp ==
    /\ lastOp.op = "CloneInfo"
    /\ lastOp.arg.nCloneFlags = {"GCIF_COLORINTERP"}
    /\ lastOp.arg.poSrcBand = FullSrcBand
    /\ lastOp.changed
    /\ psPam.eColorInterp = "GCI_GrayIndex"

\* C28: CloneInfo returns CE_None and leaves the flags of the major object,
\* GMO_IGNORE_UNIMPLEMENTED among them, as they were when it was called,
\* whatever it takes from and with a record or without.
C28_FlagsRestored == [][Clones => lastOp'.ret = "CE_None" /\ nFlags' = nFlags]_vars

\* CloneInfo has taken the metadata, which raises GMO_MD_DIRTY, into a band
\* with a record, and the band has the flags it was constructed with
C28_Witness ==
    /\ lastOp.op = "CloneInfo"
    /\ lastOp.ret = "CE_None"
    /\ "GCIF_BAND_METADATA" \in lastOp.arg.nCloneFlags
    /\ lastOp.arg.poSrcBand = FullSrcBand
    /\ lastOp.hadPam
    /\ oMDMD = FullSrcBand.papszMetadata
    /\ sDescription = "elevation"
    /\ nFlags = MOFlagsAsConstructed

\* CloneInfo has returned CE_None on a band without record whose dataset has
\* PAM disabled; GMO_IGNORE_UNIMPLEMENTED is not raised
C28_WitnessDisabled ==
    /\ lastOp.op = "CloneInfo"
    /\ lastOp.ret = "CE_None"
    /\ lastOp.arg.nCloneFlags = CloneCategories
    /\ lastOp.arg.poSrcBand = FullSrcBand
    /\ ~bPamEnabled
    /\ ~psPam.alloc
    /\ nFlags = MOFlagsAsConstructed

\* CloneInfo has returned on a band that had GMO_IGNORE_UNIMPLEMENTED raised
C28_WitnessRaised ==
    /\ lastOp.op = "CloneInfo"
    /\ lastOp.changed
    /\ "GMO_IGNORE_UNIMPLEMENTED" \in nFlags

(***************************************************************************)
(* Properties: SetColorTable().                                            *)
(***************************************************************************)
\* a step of SetColorTable that stores into a record: the band has one once
\* PamInitialize() has run.  RecordRead is that record as the step finds it.
SetsColorTable == lastOp'.op = "SetColorTable" /\ psPam'.alloc

\* C29: SetColorTable of a table, on a band with a record, puts a copy of the
\* table in the place of the stored one and makes the colour interpretation
\* GCI_PaletteIndex; SetColorTable of nullptr removes the stored table and
\* leaves the colour interpretation as it is.
C29_SetColorTable ==
    [][SetsColorTable
          => IF IsNull(lastOp'.arg)
             THEN /\ IsNull(psPam'.poColorTable)
                  /\ psPam'.eColorInterp = RecordRead.eColorInterp
             ELSE /\ psPam'.poColorTable = lastOp'.arg
                  /\ psPam'.eColorInterp = "GCI_PaletteIndex"]_vars

\* SetColorTable has stored a table in a record whose colour interpretation
\* was set to GCI_GrayIndex, and the record has changed
C29_Witness ==
    /\ lastOp.op = "SetColorTable"
    /\ ~IsNull(lastOp.arg)
    /\ lastOp.hadPam
    /\ lastOp.changed
    /\ lastSet.SetColorInterpretation = Ptr("GCI_GrayIndex")
    /\ psPam.poColorTable = lastOp.arg
    /\ psPam.eColorInterp = "GCI_PaletteIndex"

\* SetColorTable of nullptr has removed the table of a record whose colour
\* interpretation was set to GCI_GrayIndex after the table
C29_WitnessRemoved ==
    /\ lastOp.op = "SetColorTable"
    /\ IsNull(lastOp.arg)
    /\ lastOp.hadPam
    /\ lastOp.changed
    /\ IsNull(psPam.poColorTable)
    /\ psPam.eColorInterp = "GCI_GrayIndex"

(***************************************************************************)
(* Properties: who owns the category names, the colour table and the       *)
(* attribute table.                                                        *)
(***************************************************************************)
\* the field of the record a setter stores into
OwnedField(op) ==
    CASE op = "SetCategoryNames" -> "papszCategoryNames"
      [] op = "SetColorTable" -> "poColorTable"
      [] op = "SetDefaultRAT" -> "poDefaultRAT"

\* a step of one of the three setters on a band that has a record once
\* PamInitialize() has run; the pointer it is given, the pointer the record
\* held and the one it holds after the step
SetsObject ==
    /\ lastOp'.op \in {"SetCategoryNames", "SetColorTable", "SetDefaultRAT"}
    /\ psPam'.alloc
Given == lastOp'.arg
Before == IF psPam.alloc THEN psPam[OwnedField(lastOp'.op)] ELSE NULL
After == psPam'[OwnedField(lastOp'.op)]

\* the object given is after the step what it was before
ArgumentKept == IsNull(Given) \/ heap'[Deref(Given)] = heap[Deref(Given)]

\* the record holds nullptr for nullptr, and for a list without strings; for
\* any other object a live object of its own that holds what the given one held
CopyStored ==
    IF IsNull(Given)
    THEN IsNull(After)
    ELSE IF lastOp'.op = "SetCategoryNames" /\ Len(heap[Deref(Given)].val) = 0
    THEN IsNull(After)
    ELSE /\ ~IsNull(After)
         /\ After # Given
         /\ heap'[Deref(After)].state = "live"
         /\ ~heap'[Deref(After)].mine
         /\ heap'[Deref(After)].val = heap[Deref(Given)].val

\* the object the record held is deleted and the record does not point to it
PreviousReleased ==
    IsNull(Before) \/ (heap'[Deref(Before)].state = "freed" /\ After # Before)

\* a step of the caller on an object of its own
CallerActs == lastOp'.op \in {"change", "delete"}

\* the three pointers of the record and the objects they point to are after
\* the step what they were before
GettersSame ==
    \A f \in {"papszCategoryNames", "poColorTable", "poDefaultRAT"} :
        /\ psPam'[f] = psPam[f]
        /\ IsNull(psPam[f]) \/ heap'[Deref(psPam[f])] = heap[Deref(psPam[f])]

\* C30: SetCategoryNames, SetColorTable and SetDefaultRAT leave the object
\* they are given as it is and store a copy of it; the object stored before
\* is deleted and the record no longer points to it; what the caller does to
\* its object afterwards changes nothing of what the record points to.
C30_AsStated ==
    [][/\ SetsObject => ArgumentKept /\ CopyStored /\ PreviousReleased
       /\ CallerActs => GettersSame]_vars

\* what holds of C30: the same, for the calls that are not given the very
\* object the record holds, and these calls return CE_None
C30_DeepCopy ==
    [][/\ SetsObject /\ (IsNull(Given) \/ Given # Before)
            => /\ lastOp'.ret = "CE_None"
               /\ ArgumentKept
               /\ CopyStored
               /\ PreviousReleased
       /\ CallerActs => GettersSame]_vars

\* the caller has changed or deleted the object it gave to the setter that
\* was called last before, and the record holds an object
C30_CallerActed ==
    /\ lastOp.op \in {"change", "delete"}
    /\ \E op \in {"SetCategoryNames", "SetColorTable", "SetDefaultRAT"} :
          /\ lastSet[op] = Ptr(lastOp.arg)
          /\ psPam.alloc
          /\ ~IsNull(psPam[OwnedField(op)])
          /\ heap[Deref(psPam[OwnedField(op)])].state = "live"

\* a setter was given the object the record held: the object is deleted
C30_GivenItsOwn ==
    /\ lastOp.op \in {"SetCategoryNames", "SetColorTable", "SetDefaultRAT"}
    /\ lastOp.hadPam
    /\ ~IsNull(lastOp.arg)
    /\ ~heap[Deref(lastOp.arg)].mine
    /\ heap[Deref(lastOp.arg)].state = "freed"

\* a setter given the object the record held has ended the process
C30_Ended ==
    /\ lastOp.op = "SetColorTable"
    /\ ~IsNull(lastOp.arg)
    /\ lastOp.ret = "SIGSEGV"

(***************************************************************************)
(* Properties: the record that is absent.                                  *)
(***************************************************************************)
\* C31: XMLInit on a band that lazy initialization leaves without a record
\* completes and returns a status, whatever the tree holds.
C31_AsStated == lastOp.op = "XMLInit" /\ ~psPam.alloc => lastOp.ret = "CE_None"

\* what holds of C31: XMLInit without a record returns CE_None for every tree
\* that has no pair of Minimum and Maximum, no pair of Mean and
\* StandardDeviation, no Histograms and no GDALRasterAttributeTable
C31_WithoutDirectStores ==
    /\ lastOp.op = "XMLInit"
    /\ ~psPam.alloc
    /\ ~StoredThroughPam(lastOp.arg.psTree)
    => lastOp.ret = "CE_None"

\* XMLInit of a tree with Minimum and Maximum on a band without a dataset has
\* gone through the null pointer and the process has ended
C31_NullAccess ==
    /\ lastOp.op = "XMLInit"
    /\ poDS = "nullptr"
    /\ ~psPam.alloc
    /\ ~IsNull(lastOp.arg.psTree.Minimum)
    /\ ~IsNull(lastOp.arg.psTree.Maximum)
    /\ lastOp.ret = "SIGSEGV"

\* XMLInit of a tree without direct stores has returned without a record
C31_Delegated ==
    /\ lastOp.op = "XMLInit"
    /\ ~psPam.alloc
    /\ ~StoredThroughPam(lastOp.arg.psTree)
    /\ ~IsNull(lastOp.arg.psTree.Offset)
    /\ lastOp.ret = "CE_None"

(***************************************************************************)
(* Properties: the record PamInitializeNoParent() made.                    *)
(***************************************************************************)
\* a step of PamInitialize on a band of a GDALPamDataset whose record is not
\* linked to a store
InitializesUnlinked ==
    /\ lastOp'.op = "PamInitialize"
    /\ poDS = "GDALPamDataset"
    /\ psPam.alloc
    /\ ~psPam.poParentDS

\* C32: PamInitialize on a band of a GDALPamDataset that holds a record not
\* linked to a store discards the record: the band is left with a record
\* linked to the store whose fields are all as constructed, so that the
\* getters return nothing of what was stored, or with no record; it has no
\* record when the store of the dataset cannot be initialized.
C32_UnlinkedDiscarded ==
    [][InitializesUnlinked
          => /\ psPam' \in {NullPam, [DefaultPam EXCEPT !.poParentDS = TRUE]}
             /\ ~dsPam' => psPam' = NullPam
             /\ psPam'.alloc
                  => /\ ~GetOffset(Cur').ok /\ GetOffset(Cur').ret = 0
                     /\ ~GetScale(Cur').ok /\ GetScale(Cur').ret = 1
                     /\ GetUnitType(Cur').ret = ""]_vars

\* PamInitialize has put a record as constructed, linked to the store, in the
\* place of a record that was not linked
C32_Witness ==
    /\ lastOp.op = "PamInitialize"
    /\ poDS = "GDALPamDataset"
    /\ lastOp.hadPam
    /\ ~lastOp.wasLinked
    /\ lastOp.changed
    /\ lastSet = NoneSet
    /\ psPam = [DefaultPam EXCEPT !.poParentDS = TRUE]

\* PamInitialize has left without record a band whose record was not linked:
\* the dataset has PAM disabled
C32_WitnessNone ==
    /\ lastOp.op = "PamInitialize"
    /\ poDS = "GDALPamDataset"
    /\ ~bPamEnabled
    /\ lastOp.hadPam
    /\ ~lastOp.wasLinked
    /\ ~dsPam
    /\ psPam = NullPam

(***************************************************************************)
(* Properties: what CloneInfo() leaves alone.                              *)
(***************************************************************************)
\* after the step the band holds what it held of every kind, the colour
\* interpretation apart, whose flag is not raised
NotSelectedKept ==
    /\ "GCIF_BAND_METADATA" \notin CloneFlags => oMDMD' = oMDMD
    /\ "GCIF_BAND_DESCRIPTION" \notin CloneFlags => sDescription' = sDescription
    /\ "GCIF_NODATA" \notin CloneFlags => NoDataOf(psPam') = NoDataOf(Acceptor)
    /\ "GCIF_CATEGORYNAMES" \notin CloneFlags
         => psPam'.papszCategoryNames = Acceptor.papszCategoryNames
    /\ "GCIF_SCALEOFFSET" \notin CloneFlags
         => /\ psPam'.dfOffset = Acceptor.dfOffset
            /\ psPam'.bOffsetSet = Acceptor.bOffsetSet
            /\ psPam'.dfScale = Acceptor.dfScale
            /\ psPam'.bScaleSet = Acceptor.bScaleSet
    /\ "GCIF_UNITTYPE" \notin CloneFlags => psPam'.pszUnitType = Acceptor.pszUnitType
    /\ "GCIF_COLORTABLE" \notin CloneFlags => psPam'.poColorTable = Acceptor.poColorTable
    /\ "GCIF_RAT" \notin CloneFlags => psPam'.poDefaultRAT = Acceptor.poDefaultRAT

\* the step stores the colour table of poSrcBand
StoresColorTable ==
    /\ psPam'.alloc
    /\ TakesColorTable
    /\ OnlyIfMissing => IsNull(Acceptor.poColorTable)

\* C33 as stated: of every kind whose flag is not raised, the colour
\* interpretation among them, the band holds after CloneInfo what it held.
C33_AsStated ==
    [][Clones
          => /\ NotSelectedKept
             /\ "GCIF_COLORINTERP" \notin CloneFlags
                  => psPam'.eColorInterp = Acceptor.eColorInterp]_vars

\* C33: of every kind whose flag is not raised the band holds after CloneInfo
\* what it held, but for the colour interpretation: without GCIF_COLORINTERP
\* it is as before unless CloneInfo stores the colour table of poSrcBand, and
\* then it is GCI_PaletteIndex.
C33_OnlySelected ==
    [][Clones
          => /\ NotSelectedKept
             /\ "GCIF_COLORINTERP" \notin CloneFlags
                  => psPam'.eColorInterp = (IF StoresColorTable
                                            THEN "GCI_PaletteIndex"
                                            ELSE Acceptor.eColorInterp)]_vars

\* CloneInfo with GCIF_COLORTABLE alone has changed the colour interpretation
\* of the band that had GCI_GrayIndex; the rest of what it held is as it was
C33_Witness ==
    /\ lastOp.op = "CloneInfo"
    /\ lastOp.arg.nCloneFlags = {"GCIF_COLORTABLE"}
    /\ lastOp.arg.poSrcBand = FullSrcBand
    /\ lastOp.hadPam
    /\ lastOp.changed
    /\ psPam.poColorTable = FullSrcBand.poColorTable
    /\ psPam.eColorInterp = "GCI_PaletteIndex"
    /\ psPam.poDefaultRAT = Ptr([nRows |-> MaxRat, nCols |-> 0])
    /\ psPam.dfNoDataValue = MaxDouble
    /\ sDescription = "depth"

\* CloneInfo with GCIF_UNITTYPE alone has taken the unit and nothing else
C33_WitnessUnit ==
    /\ lastOp.op = "CloneInfo"
    /\ lastOp.arg.nCloneFlags = {"GCIF_UNITTYPE"}
    /\ lastOp.arg.poSrcBand = FullSrcBand
    /\ lastOp.hadPam
    /\ lastOp.changed
    /\ psPam.pszUnitType = Ptr("ft")
    /\ psPam.eColorInterp = "GCI_PaletteIndex"
    /\ psPam.poColorTable = TheColorTable
    /\ psPam.dfOffset = MaxDouble
    /\ sDescription = "elevation"

(***************************************************************************)
(* Properties: SetDefaultHistogram() that fails.                           *)
(***************************************************************************)
\* a step of SetDefaultHistogram on a band with a record that returns
\* CE_Failure: PamHistogramToXMLTree() has made no node
FailsToSet ==
    /\ lastOp'.op = "SetDefaultHistogram"
    /\ lastOp'.ret = "CE_Failure"
    /\ ~lastOp'.delegated

\* C34 as stated: SetDefaultHistogram that returns CE_Failure leaves the list
\* of histograms as it was, no node removed and none added, and the dirty
\* flag of the store as it was.
C34_AsStated ==
    [][FailsToSet
          => /\ psPam'.psSavedHistograms = PamInitialize(Cur, TRUE).psPam.psSavedHistograms
             /\ bDirty' = bDirty]_vars

\* what the code does for C34: the node that matches is removed from the
\* list before the new one is made, nothing is added, and the store is not
\* marked
C34_MatchRemoved ==
    [][FailsToSet
          => /\ \E psNode \in {PamFindMatchingHistogram(
                                   PamInitialize(Cur, TRUE).psPam.psSavedHistograms,
                                   lastOp'.arg.dfMin, lastOp'.arg.dfMax,
                                   lastOp'.arg.nBuckets, 1, 1)} :
                    psPam'.psSavedHistograms
                      = (IF psNode = 0
                         THEN PamInitialize(Cur, TRUE).psPam.psSavedHistograms
                         ELSE Ptr(CPLRemoveXMLChild(
                                      Deref(PamInitialize(Cur, TRUE).psPam.psSavedHistograms),
                                      psNode)))
             /\ bDirty' = bDirty
             /\ ~lastOp'.marked]_vars

\* SetDefaultHistogram has returned CE_Failure for a histogram of too many
\* buckets, the list has lost the node of that many buckets a document had
\* given it, and the store is not dirty
C34_Removed ==
    /\ lastOp.op = "SetDefaultHistogram"
    /\ lastOp.ret = "CE_Failure"
    /\ lastOp.arg.nBuckets = INT_MAX \div 2 + 1
    /\ lastOp.histBefore = Ptr(<<HugeHistItem>>)
    /\ psPam.psSavedHistograms = Ptr(<<>>)
    /\ ~bDirty

\* SetDefaultHistogram has returned CE_Failure with no node that matches: the
\* list is as it was
C34_Kept ==
    /\ lastOp.op = "SetDefaultHistogram"
    /\ lastOp.ret = "CE_Failure"
    /\ ~lastOp.delegated
    /\ lastOp.arg.nBuckets = TooManyBuckets
    /\ ~IsNull(lastOp.histBefore)
    /\ psPam.psSavedHistograms = lastOp.histBefore

(***************************************************************************)
(* Properties: the getters.                                                *)
(***************************************************************************)
\* a step of one of the getters
Reads ==
    lastOp'.op \in { "GetNoDataValue", "GetNoDataValueAsInt64", "GetNoDataValueAsUInt64",
                     "GetOffset", "GetScale", "GetUnitType", "GetCategoryNames",
                     "GetColorTable", "GetColorInterpretation", "GetDefaultRAT",
                     "GetDefaultHistogram" }

\* C35 as stated: no getter makes, replaces or changes the record or marks
\* the store dirty; the band is after the call what it was before.
C35_AsStated == [][Reads => Cur' = Cur]_vars

\* C35: no getter marks the store dirty, and every getter but GetDefaultRAT
\* leaves the band as it was.  GetDefaultRAT leaves as it was a record that
\* is linked to a store and a band whose dataset is no GDALPamDataset; a band
\* of a GDALPamDataset that has no record or a record that is not linked it
\* leaves with the record as constructed, linked to the store, or with no
\* record, description and metadata as they were.
C35_GettersKeep ==
    [][Reads
          => /\ bDirty' = bDirty
             /\ ~lastOp'.marked
             /\ lastOp'.op # "GetDefaultRAT" => Cur' = Cur
             /\ (psPam.alloc /\ psPam.poParentDS) \/ poDS # "GDALPamDataset" => Cur' = Cur
             /\ psPam' \in {psPam, NullPam, [DefaultPam EXCEPT !.poParentDS = TRUE]}
             /\ sDescription' = sDescription
             /\ oMDMD' = oMDMD]_vars

\* GetOffset has returned the offset of the record, which is not linked, of
\* a band of a GDALPamDataset
C35_Witness ==
    /\ lastOp.op = "GetOffset"
    /\ poDS = "GDALPamDataset"
    /\ lastOp.ret = MaxDouble
    /\ lastOp.ok
    /\ psPam.alloc
    /\ ~psPam.poParentDS
    /\ psPam.pszUnitType = Ptr("m")
    /\ ~lastOp.changed

\* GetDefaultRAT has made the record of a band that had none
C35_WitnessMade ==
    /\ lastOp.op = "GetDefaultRAT"
    /\ ~lastOp.hadPam
    /\ lastOp.changed
    /\ IsNull(lastOp.ret)
    /\ psPam = [DefaultPam EXCEPT !.poParentDS = TRUE]
    /\ ~bDirty

\* GetDefaultRAT has put a record as constructed in the place of the record
\* that held an attribute table, and returned no table
C35_WitnessReplaced ==
    /\ lastOp.op = "GetDefaultRAT"
    /\ lastOp.hadPam
    /\ ~lastOp.wasLinked
    /\ lastSet = NoneSet
    /\ lastOp.changed
    /\ IsNull(lastOp.ret)
    /\ psPam = [DefaultPam EXCEPT !.poParentDS = TRUE]

\* GetDefaultHistogram has returned the histogram of the record
C35_WitnessHistogram ==
    /\ lastOp.op = "GetDefaultHistogram"
    /\ lastOp.ret.eErr = "CE_None"
    /\ lastOp.ret.panHistogram = Ptr(<<0, MaxCount>>)
    /\ ~lastOp.delegated
    /\ ~IsNull(psPam.psSavedHistograms)
    /\ ~lastOp.changed

(***************************************************************************)
(* Properties: what is changed is marked.                                  *)
(***************************************************************************)
\* what SerializeToXML() writes of a band: the fields of the record it looks
\* at, and the description
Serialized(p, desc) ==
    <<desc, NoDataOf(p), p.pszUnitType, p.dfOffset, p.dfScale, p.eColorInterp,
      p.papszCategoryNames, p.poColorTable, p.poDefaultRAT, p.psSavedHistograms>>

\* a step of a setter, of DeleteNoDataValue, GetHistogram, SetDefaultHistogram
\* or CloneInfo on a record linked to a store that changes what is written
ChangesSerialized ==
    /\ lastOp'.op \in { "SetNoDataValue", "SetNoDataValueAsInt64", "SetNoDataValueAsUInt64",
                        "DeleteNoDataValue", "SetOffset", "SetScale", "SetUnitType",
                        "SetColorInterpretation", "SetCategoryNames", "SetColorTable",
                        "SetDefaultRAT", "SetDescription", "GetHistogram",
                        "SetDefaultHistogram", "CloneInfo" }
    /\ psPam.alloc
    /\ psPam.poParentDS
    /\ Serialized(psPam', sDescription') # Serialized(psPam, sDescription)

\* C36 as stated: a call that changes, on a record linked to a store, a field
\* SerializeToXML writes marks the store dirty in that call.
C36_AsStated == [][ChangesSerialized => lastOp'.marked /\ bDirty']_vars

\* what the code does for C36: such a call marks the store dirty unless it is
\* SetDefaultHistogram returning CE_Failure, which has removed a node and
\* marked nothing
C36_UnlessDefaultFails ==
    [][ChangesSerialized /\ ~FailsToSet => lastOp'.marked /\ bDirty']_vars

\* SetDefaultHistogram has changed the list of a record linked to the store
\* and the store, saved before, is not dirty
C36_Unmarked ==
    /\ lastOp.op = "SetDefaultHistogram"
    /\ lastOp.wasLinked
    /\ lastOp.changed
    /\ lastOp.histBefore # psPam.psSavedHistograms
    /\ ~lastOp.marked
    /\ ~bDirty

(***************************************************************************)
(* Properties: the keys of the list of histograms.                         *)
(***************************************************************************)
\* the key PamFindMatchingHistogram() reads from a node
HistKey(psXMLHist) ==
    <<CPLAtofM(CPLGetXMLValue(psXMLHist, "HistMin", <<"0">>)),
      CPLAtofM(CPLGetXMLValue(psXMLHist, "HistMax", <<"0">>)),
      atoi(CPLGetXMLValue(psXMLHist, "BucketCount", <<"0">>)),
      atoi(CPLGetXMLValue(psXMLHist, "IncludeOutOfRange", <<"0">>)) # 0>>

\* the nodes of the list
SavedHistograms == ChildrenOf(psPam.psSavedHistograms)

\* C37 as stated: no two nodes of the list have the same minimum, maximum,
\* number of buckets and IncludeOutOfRange.
C37_AsStated ==
    \A i, j \in 1..Len(SavedHistograms) :
        i # j => HistKey(SavedHistograms[i]) # HistKey(SavedHistograms[j])

\* no two nodes of the list have the same key and the same Approximate
C37_WithApproximate ==
    \A i, j \in 1..Len(SavedHistograms) :
        i # j => \/ HistKey(SavedHistograms[i]) # HistKey(SavedHistograms[j])
                 \/ IsApproximate(SavedHistograms[i]) # IsApproximate(SavedHistograms[j])

\* the list holds an approximate histogram and after it an exact one of the
\* same key: GetHistogram with bApproxOK, then GetHistogram without
C37_ApproximateThenExact ==
    /\ lastOp.op = "GetHistogram"
    /\ lastOp.arg.bApproxOK = 0
    /\ lastOp.ret.eErr = "CE_None"
    /\ Len(SavedHistograms) = 2
    /\ HistKey(SavedHistograms[1]) = HistKey(SavedHistograms[2])
    /\ IsApproximate(SavedHistograms[1])
    /\ ~IsApproximate(SavedHistograms[2])

\* SetDefaultHistogram has left two exact histograms of the same key: it
\* removed the approximate one and not the exact one
C37_ExactTwice ==
    /\ lastOp.op = "SetDefaultHistogram"
    /\ lastOp.ret = "CE_None"
    /\ Len(ChildrenOf(lastOp.histBefore)) = 2
    /\ IsApproximate(ChildrenOf(lastOp.histBefore)[1])
    /\ Len(SavedHistograms) = 2
    /\ HistKey(SavedHistograms[1]) = HistKey(SavedHistograms[2])
    /\ ~IsApproximate(SavedHistograms[1])
    /\ ~IsApproximate(SavedHistograms[2])

(***************************************************************************)
(* Properties: nothing that is set is left out of the tree.                *)
(***************************************************************************)
\* the children SerializeToXML() has to write for what the band holds: a
\* description, a nodata value, a unit, an offset other than 0, a scale
\* other than 1, an interpretation, names, a colour table, minimum and
\* maximum, mean and standard deviation, histograms, an attribute table
FieldsHeld == NodesWritten \ {"band", "Metadata"}

\* the tree SerializeToXML() returned has a child of every field held
AllWritten ==
    \A name \in FieldsHeld : ~IsNull(lastOp.ret) /\ ~IsNull(Deref(lastOp.ret)[name])

\* C38 as stated: whatever the number of the band, 0 included, the tree
\* SerializeToXML returns for a band with a record has a child for every
\* field the record holds that is not as constructed.
C38_AsStated == lastOp.op = "SerializeToXML" /\ psPam.alloc => AllWritten

\* what the code does for C38: every field held is written when the band has
\* a number or holds more than one thing to write
C38_UnlessAlone ==
    (/\ lastOp.op = "SerializeToXML"
     /\ psPam.alloc
     /\ nBand > 0 \/ Cardinality(NodesWritten) > 1) => AllWritten

\* SerializeToXML has returned no tree for the band without number whose
\* record holds a unit and nothing else
C38_Dropped ==
    /\ lastOp.op = "SerializeToXML"
    /\ nBand = 0
    /\ psPam.alloc
    /\ psPam.pszUnitType = Ptr("m")
    /\ FieldsHeld = {"UnitType"}
    /\ IsNull(oMDMD)
    /\ IsNull(lastOp.ret)

\* SerializeToXML has returned the tree with the unit for band 1 that holds
\* the same
C38_Numbered ==
    /\ lastOp.op = "SerializeToXML"
    /\ nBand = 1
    /\ FieldsHeld = {"UnitType"}
    /\ ~IsNull(lastOp.ret)
    /\ Deref(lastOp.ret).UnitType = Ptr("m")

====
